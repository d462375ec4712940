------------------------------- MODULE AcpTurn -------------------------------
(***************************************************************************)
(* One chat turn over the ACP channel (internal/growth/active_day.go): the  *)
(* goroutine of Run walks the protocol, and one goroutine per event stream  *)
(* reads what the upstream sends, on the long-lived channel and on each     *)
(* posted message that is answered by a stream.  The upstream answers what  *)
(* it was sent, at most once, or not at all; every stream may fail or end.  *)
(***************************************************************************)
EXTENDS Integers, FiniteSets

Calls == 1 .. 4   \* initialize, session/new, session/set_model, session/prompt
Prompt == 4
Channel == 0      \* the event channel; the stream of a posted message has its number

VARIABLES
  stage,      \* where Run is
  call,       \* number of the latest message, nextID
  waiter,     \* what lies in the pending channel of that message
  turnDone,   \* turnDone is closed
  streamErr,  \* failStream has recorded an error
  open,       \* streams that a goroutine reads
  reached,    \* messages that the upstream has got
  ended,      \* the upstream sent the end of the turn
  outcome     \* what Run returns

session == <<waiter, turnDone, streamErr>>
vars == <<stage, call, session, open, reached, ended, outcome>>

TypeOK ==
  /\ stage \in {"conversation", "channel", "post", "answer", "turn", "cancel", "drain",
                "delete", "done"}
  /\ call \in 0 .. Prompt
  /\ waiter \in {"none", "empty", "result", "error"}
  /\ turnDone \in BOOLEAN /\ streamErr \in BOOLEAN /\ ended \in BOOLEAN
  /\ open \subseteq {Channel} \cup Calls
  /\ reached \subseteq Calls
  /\ outcome \in {"none", "ok", "error"}

Init ==
  /\ stage = "conversation" /\ call = 0
  /\ waiter = "none" /\ turnDone = FALSE /\ streamErr = FALSE
  /\ open = {} /\ reached = {} /\ ended = FALSE
  /\ outcome = "none"

-----------------------------------------------------------------------------
(* The goroutine of Run.                                                   *)

\* protocol returns; disconnect follows.
Returns(result) == stage' = "cancel" /\ outcome' = result

\* createConversation and sessionInfo, each bounded by the JSON client.
OpenConversation ==
  /\ stage = "conversation"
  /\ \/ stage' = "channel" /\ UNCHANGED outcome
     \/ Returns("error")
  /\ UNCHANGED <<call, session, open, reached, ended>>

\* rpc registers its waiter, except for the prompt, and posts.
Message == /\ call' = call + 1
           /\ waiter' = IF call' = Prompt THEN "none" ELSE "empty"
           /\ stage' = "post"

OpenChannel ==
  /\ stage = "channel"
  /\ \/ /\ open' = open \cup {Channel}
        /\ Message /\ UNCHANGED outcome
     \/ Returns("error") /\ UNCHANGED <<open, call, waiter>>
  /\ UNCHANGED <<turnDone, streamErr, reached, ended>>

\* The message arrives while postRPC still waits for the response.
UpstreamGets ==
  /\ stage = "post" /\ call \notin reached
  /\ reached' = reached \cup {call}
  /\ UNCHANGED <<stage, call, session, open, ended, outcome>>

Posted == IF call = Prompt THEN "turn" ELSE "answer"

\* dispatch gives an answer to whoever waits, and only the first one counts.
Deliver(answer) ==
  waiter' = IF waiter = "empty" /\ answer \in {"result", "error"} THEN answer ELSE waiter

\* postRPC returns: with a stream that answers, with a body that may be the
\* answer, or with a failure.
PostReturns ==
  /\ stage = "post"
  /\ \/ /\ call \in reached
        /\ open' = open \cup {call}
        /\ stage' = Posted /\ UNCHANGED <<waiter, outcome>>
     \/ /\ call \in reached
        /\ \E answer \in {"nothing", "result", "error"} : Deliver(answer)
        /\ stage' = Posted /\ UNCHANGED <<open, outcome>>
     \/ Returns("error") /\ waiter' = "none" /\ UNCHANGED open
  /\ UNCHANGED <<call, turnDone, streamErr, reached, ended>>

\* rpc goes on with the answer.
TakeAnswer ==
  /\ stage = "answer" /\ waiter \in {"result", "error"}
  /\ IF waiter = "result"
     THEN Message /\ UNCHANGED outcome
     ELSE Returns("error") /\ waiter' = "none" /\ UNCHANGED call
  /\ UNCHANGED <<turnDone, streamErr, open, reached, ended>>

\* Mutation: whatever closed turnDone is the end of the turn.
TakeAnyTurn ==
  /\ stage = "turn" /\ turnDone
  /\ Returns("ok")
  /\ UNCHANGED <<call, session, open, reached, ended>>

\* waitTurn: turnDone is closed by the end of the turn and by failStream.
TakeTurn ==
  /\ stage = "turn" /\ turnDone
  /\ Returns(IF streamErr THEN "error" ELSE "ok")
  /\ UNCHANGED <<call, session, open, reached, ended>>

\* Mutation: only rpc has a timer, the wait for the turn has none.
TimesOutInRPC ==
  /\ stage = "answer"
  /\ Returns("error") /\ waiter' = "none"
  /\ UNCHANGED <<call, turnDone, streamErr, open, reached, ended>>

\* The timer of rpc or of waitTurn fires; select takes it or what came meanwhile.
TimesOut ==
  /\ stage \in {"answer", "turn"}
  /\ Returns("error") /\ waiter' = "none"
  /\ UNCHANGED <<call, turnDone, streamErr, open, reached, ended>>

\* disconnect cancels the event channel, and no other stream.
Cancel ==
  /\ stage = "cancel"
  /\ open' = open \ {Channel}
  /\ stage' = "drain"
  /\ UNCHANGED <<call, session, reached, ended, outcome>>

\* Mutation: the conversation is deleted at once.
DrainsNothing ==
  /\ stage = "drain"
  /\ stage' = "delete"
  /\ UNCHANGED <<call, session, open, reached, ended, outcome>>

\* streamGroup.Wait.
Drain ==
  /\ stage = "drain" /\ open = {}
  /\ stage' = "delete"
  /\ UNCHANGED <<call, session, open, reached, ended, outcome>>

\* The DELETE, whose failure is ignored.
Delete ==
  /\ stage = "delete"
  /\ stage' = "done"
  /\ UNCHANGED <<call, session, open, reached, ended, outcome>>

-----------------------------------------------------------------------------
(* The goroutines that read streams, and the upstream.                     *)

\* dispatch of an answer to the latest message, which the upstream has got.
StreamAnswers ==
  /\ open # {} /\ call \in reached
  /\ \E answer \in {"result", "error"} : Deliver(answer)
  /\ UNCHANGED <<stage, call, turnDone, streamErr, open, reached, ended, outcome>>

\* dispatch of the end of the turn.
StreamEndsTurn ==
  /\ open # {} /\ Prompt \in reached
  /\ ended' = TRUE /\ turnDone' = TRUE
  /\ UNCHANGED <<stage, call, waiter, streamErr, open, reached, outcome>>

\* Mutation: a stream that ends is a failure that leaves the waiters alone.
StreamFailsQuietly(s) ==
  /\ s \in open
  /\ open' = open \ {s}
  /\ streamErr' = TRUE
  /\ UNCHANGED <<stage, call, waiter, turnDone, reached, ended, outcome>>

\* failStream: the error reaches the present waiter and the turn.
StreamFails(s) ==
  /\ s \in open
  /\ open' = open \ {s}
  /\ streamErr' = TRUE /\ turnDone' = TRUE
  /\ Deliver("error")
  /\ UNCHANGED <<stage, call, reached, ended, outcome>>

\* The end of a stream is no failure.
StreamEnds(s) ==
  /\ s \in open
  /\ open' = open \ {s}
  /\ UNCHANGED <<stage, call, session, reached, ended, outcome>>

RunStep ==
  \/ OpenConversation \/ OpenChannel \/ PostReturns \/ TakeAnswer \/ TakeTurn
  \/ TimesOut \/ Cancel \/ Drain \/ Delete

StreamStep ==
  \/ UpstreamGets \/ StreamAnswers \/ StreamEndsTurn
  \/ \E s \in {Channel} \cup Calls : StreamFails(s) \/ StreamEnds(s)

Next == RunStep \/ StreamStep

Spec == Init /\ [][Next]_vars

\* Run's goroutine goes on and its timers fire.  The header of a response is
\* bounded, but neither its body nor a stream is: these are the upstream's.
OwnSteps ==
  /\ WF_vars(OpenConversation) /\ WF_vars(OpenChannel)
  /\ WF_vars(TakeAnswer) /\ WF_vars(TakeTurn) /\ WF_vars(TimesOut)
  /\ WF_vars(Cancel) /\ WF_vars(Drain) /\ WF_vars(Delete)

\* The upstream completes every response and ends the streams it has opened.
UpstreamFinishes ==
  /\ WF_vars(PostReturns)
  /\ \A s \in {Channel} \cup Calls : WF_vars(StreamFails(s) \/ StreamEnds(s))

ClientFairSpec == Spec /\ OwnSteps
FairSpec == Spec /\ OwnSteps /\ UpstreamFinishes

-----------------------------------------------------------------------------
(* Properties.                                                             *)

\* A turn is reported as done only when the upstream said so: the failure of a
\* stream that closes turnDone is never taken for it.
SuccessIsEndOfTurn == outcome = "ok" => ended

\* Once the conversation is being deleted nobody reads a stream of it any more.
DeletedIsDrained == stage \in {"delete", "done"} => open = {}

\* NewActiveDayClient: "timeout bounds each RPC and the final end-turn wait".
\* Run returns, and with it the round that called it.
TurnReturns == <>(stage = "done")
=============================================================================
