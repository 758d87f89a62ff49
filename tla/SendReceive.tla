----------------------------- MODULE SendReceive -----------------------------
(***************************************************************************)
(* Send tasks and receive tasks that exchange messages by name.  A sender  *)
(* repeats its message until a receiver of that name replies, or until it  *)
(* has used up its attempts.  A receiver takes the first message, persists *)
(* that it has resumed, and replies to whoever listens for that name.      *)
(*                                                                         *)
(* A sender has two promise chains that share its fields and its row: the  *)
(* loop that sends, waits and gives up, and the callback for the reply.    *)
(* An event that is published goes to those who are subscribed then, and   *)
(* is lost on those who are no longer when it reaches them.                *)
(***************************************************************************)
EXTENDS Integers, FiniteSets

CONSTANTS
  Senders,      \* the send tasks
  Receivers,    \* the receive tasks
  Name,         \* the message name of each task
  MaxRetries,   \* maxRetries of each sender; 0: it never gives up
  Nobody,       \* no sender
  MaxCrashes    \* bound: how often the runtime stops and is started again

Tasks == Senders \cup Receivers

ASSUME ConstantsAssumption ==
  /\ IsFiniteSet(Tasks) /\ Senders \cap Receivers = {} /\ Nobody \notin Senders
  /\ MaxRetries \in [Senders -> Nat]
  /\ DOMAIN Name = Tasks
  /\ MaxCrashes \in Nat

VARIABLES
  row,         \* state of the flow node instance of each task
  taken,       \* the sender whose message is in the receiver's token
  boot,        \* how often the runtime was started again
  at,          \* where the body of each handler promise stands
  replied,     \* where the sender's callback for the reply stands
  attempts,    \* currentAttempt of each sender
  listening,   \* tasks with a subscription to their message or reply
  messages,    \* messages on their way: <<sender, receiver>>
  replies,     \* replies on their way: <<receiver, sender>>
  settled      \* how the promise of each handler is settled

dbVars == <<row, taken, boot>>
netVars == <<listening, messages, replies>>
vars == <<dbVars, at, replied, attempts, netVars, settled>>

Init ==
  /\ row = [t \in Tasks |-> "absent"]
  /\ taken = [r \in Receivers |-> Nobody]
  /\ boot = 0
  /\ at = [t \in Tasks |-> "idle"]
  /\ replied = [s \in Senders |-> "no"]
  /\ attempts = [s \in Senders |-> 0]
  /\ listening = {}
  /\ messages = {}
  /\ replies = {}
  /\ settled = [t \in Tasks |-> "none"]

Settle(t, how) == settled' = [settled EXCEPT ![t] = IF @ = "none" THEN how ELSE @]

-----------------------------------------------------------------------------
(* Both kinds of tasks                                                     *)

\* startExecution persists the instance.
Begin(t) ==
  /\ at[t] = "idle"
  /\ at' = [at EXCEPT ![t] = "entering"]
  /\ row' = [row EXCEPT ![t] = "running"]
  /\ UNCHANGED <<taken, boot, replied, attempts, netVars, settled>>

\* persistOnExit has been called by continueAfterResume or by the receiver.
ContinueAfterResume(t) ==
  /\ at[t] = "leaving"
  /\ at' = [at EXCEPT ![t] = "exiting"]
  /\ row' = [row EXCEPT ![t] = "finished"]
  /\ UNCHANGED <<taken, boot, replied, attempts, netVars, settled>>

Exited(t) ==
  /\ at[t] = "exiting"
  /\ at' = [at EXCEPT ![t] = "over"]
  /\ Settle(t, "resolved")
  /\ UNCHANGED <<dbVars, replied, attempts, netVars>>

\* onInterruptedCallback, called for a boundary event: nobody listens any more,
\* the promise is cancelled, and the event finishes the instance.  The body of
\* the promise runs on.
Interrupted(t) ==
  /\ settled[t] = "none" /\ at[t] \in {"waiting", "resuming", "failing", "exiting", "over"}
  /\ listening' = listening \ {t}
  /\ row' = [row EXCEPT ![t] = "finished"]
  /\ Settle(t, "interrupted")
  /\ UNCHANGED <<taken, boot, at, replied, attempts, messages, replies>>

-----------------------------------------------------------------------------
(* Send tasks                                                              *)

\* sendMessage reaches the receivers that listen for its name.
Send(s) ==
  messages' = messages \cup {<<s, r>> : r \in {x \in Receivers \cap listening : Name[x] = Name[s]}}

\* startExecution persists the suspension, too.
Suspend(s) ==
  /\ at[s] = "entering"
  /\ at' = [at EXCEPT ![s] = "suspending"]
  /\ row' = [row EXCEPT ![s] = "suspended"]
  /\ UNCHANGED <<taken, boot, replied, attempts, netVars, settled>>

\* maxRetries is set, and there were as many attempts.
UsedUp(s) == MaxRetries[s] > 0 /\ attempts[s] >= MaxRetries[s]

\* currentAttempt, counted only as far as it matters.
Count(s) ==
  attempts' = [attempts EXCEPT ![s] = IF MaxRetries[s] = 0 \/ UsedUp(s) THEN @ ELSE @ + 1]

\* executeHandler listens for the reply and sends the message.
ExecuteSend(s) ==
  /\ at[s] = "suspending"
  /\ at' = [at EXCEPT ![s] = "waiting"]
  /\ listening' = listening \cup {s}
  /\ Send(s)
  /\ Count(s)
  /\ UNCHANGED <<dbVars, replied, replies, settled>>

\* The retry interval is over: the loop ends, or gives up, or sends again.
Unanswered(s) == replied[s] = "no"
NeverGivesUp(s) == FALSE
GivesUpAnyway(s) == UsedUp(s)
GivesUp(s) == Unanswered(s) /\ UsedUp(s)

Retry(s) ==
  /\ at[s] = "waiting"
  /\ \/ /\ GivesUp(s)
        /\ at' = [at EXCEPT ![s] = "failing"]
        /\ row' = [row EXCEPT ![s] = "error"]
        /\ UNCHANGED <<attempts, messages>>
     \/ /\ ~GivesUp(s) /\ Unanswered(s)
        /\ Send(s)
        /\ Count(s)
        /\ UNCHANGED <<at, row>>
     \/ /\ ~GivesUp(s) /\ ~Unanswered(s)
        /\ at' = [at EXCEPT ![s] = "over"]
        /\ UNCHANGED <<row, attempts, messages>>
  /\ UNCHANGED <<taken, boot, replied, listening, replies, settled>>

\* persistOnError is done.  (The subscription to the reply stays.)
Failed(s) ==
  /\ at[s] = "failing"
  /\ at' = [at EXCEPT ![s] = "over"]
  /\ Settle(s, "rejected")
  /\ UNCHANGED <<dbVars, replied, attempts, netVars>>

\* A reply arrives: onResponseReceivedCallback calls persistOnResume ...
ReplyReceived(r, s) ==
  /\ <<r, s>> \in replies
  /\ replies' = replies \ {<<r, s>>}
  /\ \/ /\ s \in listening
        /\ listening' = listening \ {s}
        /\ replied' = [replied EXCEPT ![s] = "resuming"]
        /\ row' = [row EXCEPT ![s] = "resumed"]
     \/ /\ s \notin listening
        /\ UNCHANGED <<listening, replied, row>>
  /\ UNCHANGED <<taken, boot, at, attempts, messages, settled>>

\* ... then persistOnExit ...
ReplyPersisted(s) ==
  /\ replied[s] = "resuming"
  /\ replied' = [replied EXCEPT ![s] = "exiting"]
  /\ row' = [row EXCEPT ![s] = "finished"]
  /\ UNCHANGED <<taken, boot, at, attempts, netVars, settled>>

\* ... and resolves the promise.
ReplyDone(s) ==
  /\ replied[s] = "exiting"
  /\ replied' = [replied EXCEPT ![s] = "done"]
  /\ Settle(s, "resolved")
  /\ UNCHANGED <<dbVars, at, attempts, netVars>>

-----------------------------------------------------------------------------
(* Receive tasks                                                           *)

\* executeHandler: waitForMessage subscribes and persists the suspension.
ExecuteReceive(r) ==
  /\ at[r] = "entering"
  /\ at' = [at EXCEPT ![r] = "waiting"]
  /\ listening' = listening \cup {r}
  /\ row' = [row EXCEPT ![r] = "suspended"]
  /\ UNCHANGED <<taken, boot, replied, attempts, messages, replies, settled>>

\* A message arrives: persistOnResume.
MessageReceived(s, r) ==
  /\ <<s, r>> \in messages
  /\ messages' = messages \ {<<s, r>>}
  /\ \/ /\ r \in listening
        /\ listening' = listening \ {r}
        /\ taken' = [taken EXCEPT ![r] = s]
        /\ at' = [at EXCEPT ![r] = "resuming"]
        /\ row' = [row EXCEPT ![r] = "resumed"]
     \/ /\ r \notin listening
        /\ UNCHANGED <<listening, taken, at, row>>
  /\ UNCHANGED <<boot, replied, attempts, replies, settled>>

\* The reply reaches every sender that listens for the name; persistOnExit.
NoReply(r) == {}
RepliesOf(r) == {<<r, s>> : s \in {x \in Senders \cap listening : Name[x] = Name[r]}}

Reply(r) ==
  /\ at[r] = "resuming"
  /\ at' = [at EXCEPT ![r] = "exiting"]
  /\ replies' = replies \cup RepliesOf(r)
  /\ row' = [row EXCEPT ![r] = "finished"]
  /\ UNCHANGED <<taken, boot, replied, attempts, listening, messages, settled>>

-----------------------------------------------------------------------------
(* The runtime stops and is started again                                  *)

\* Where a task is resumed: a suspended one and one that was not suspended yet
\* start over, a resumed one has persistOnExit left.  A failed process instance
\* is not resumed, and what was interrupted goes on behind its boundary event.
StartsOverIfRunning(t) == row[t] = "running"
AlwaysStartsOver(t) == row[t] \in {"running", "suspended", "resumed"}
StartsOver(t) == row[t] \in {"running", "suspended"}

ResumedWhereLeft(t) ==
  IF row[t] = "absent" THEN "idle"
  ELSE IF settled[t] # "none" \/ row[t] \in {"finished", "error"} THEN "over"
  ELSE IF ~StartsOver(t) THEN "leaving"
  ELSE "waiting"
ResumedAt(t) ==
  IF row[t] = "absent" THEN "idle"
  ELSE IF settled[t] # "none" \/ row[t] \in {"finished", "error"} THEN "over"
  ELSE IF ~StartsOver(t) THEN "leaving"
  ELSE IF t \in Senders THEN "suspending" ELSE "entering"

AllResolved(t) == IF row[t] \in {"finished", "error"} THEN "resolved" ELSE settled[t]
ResumedAs(t) ==
  IF settled[t] # "none" \/ row[t] \notin {"finished", "error"} THEN settled[t]
  ELSE IF row[t] = "finished" THEN "resolved" ELSE "rejected"

CrashAndResume ==
  /\ boot < MaxCrashes
  /\ boot' = boot + 1
  /\ at' = [t \in Tasks |-> ResumedAt(t)]
  /\ settled' = [t \in Tasks |-> ResumedAs(t)]
  /\ replied' = [s \in Senders |-> "no"]
  /\ attempts' = [s \in Senders |-> 0]
  /\ listening' = {} /\ messages' = {} /\ replies' = {}
  /\ UNCHANGED <<row, taken>>

-----------------------------------------------------------------------------
TaskStep(t) == Begin(t) \/ ContinueAfterResume(t) \/ Exited(t)
SenderStep(s) == Suspend(s) \/ ExecuteSend(s) \/ Retry(s) \/ Failed(s)
CallbackStep(s) == ReplyPersisted(s) \/ ReplyDone(s)
ReceiverStep(r) == ExecuteReceive(r) \/ Reply(r)

Next ==
  \/ \E t \in Tasks : TaskStep(t) \/ Interrupted(t)
  \/ \E s \in Senders : SenderStep(s) \/ CallbackStep(s)
  \/ \E r \in Receivers : ReceiverStep(r)
  \/ \E s \in Senders, r \in Receivers : MessageReceived(s, r) \/ ReplyReceived(r, s)
  \/ CrashAndResume

Spec == Init /\ [][Next]_vars

\* Every task is reached in the end, promise chains run on, timers expire, and
\* events are delivered.  Nothing has to be interrupted or to crash.
Fairness ==
  /\ \A t \in Tasks : WF_vars(TaskStep(t))
  /\ \A s \in Senders : WF_vars(SenderStep(s)) /\ WF_vars(CallbackStep(s))
  /\ \A r \in Receivers : WF_vars(ReceiverStep(r))
  /\ \A s \in Senders, r \in Receivers : WF_vars(MessageReceived(s, r)) /\ WF_vars(ReplyReceived(r, s))

FairSpec == Spec /\ Fairness

-----------------------------------------------------------------------------
(* Properties                                                              *)

Rows == {"absent", "running", "suspended", "resumed", "finished", "error"}
Places == {"idle", "entering", "suspending", "waiting", "resuming", "leaving", "exiting",
           "failing", "over"}

\* Every variable has its type.
TypeOK ==
  /\ row \in [Tasks -> Rows]
  /\ taken \in [Receivers -> Senders \cup {Nobody}]
  /\ boot \in 0 .. MaxCrashes
  /\ at \in [Tasks -> Places]
  /\ replied \in [Senders -> {"no", "resuming", "exiting", "done"}]
  /\ attempts \in [Senders -> Nat] /\ \A s \in Senders : attempts[s] <= MaxRetries[s]
  /\ listening \subseteq Tasks
  /\ messages \subseteq Senders \X Receivers
  /\ replies \subseteq Receivers \X Senders
  /\ settled \in [Tasks -> {"none", "resolved", "rejected", "interrupted"}]

\* The sender went on, or is about to, because of a reply.
Acknowledged(s) == replied[s] # "no" \/ row[s] = "resumed" \/ settled[s] = "resolved"

\* "A ReceiveTask has acknowledged the receipt of the message": a sender goes on
\* only if a receiver has taken a message with its name, and so its own message
\* if nobody else sends that name; restarts and interruptions make no difference.
AcknowledgedIsReceived ==
  \A s \in Senders : Acknowledged(s) =>
    \E r \in Receivers : taken[r] \in {u \in Senders : Name[u] = Name[s]}

\* A receiver takes one message and keeps it, however often it is repeated and
\* also when the receiver is restarted before it has replied.
TakesOneMessage ==
  [][\A r \in Receivers : taken[r] # Nobody => taken'[r] = taken[r]]_vars

\* A reply that is being persisted is not overridden by the end of the attempts.
ReplyBeatsTimeout ==
  [][\A s \in Senders : Acknowledged(s) /\ row[s] # "error" => row'[s] # "error"]_vars

\* Nobody is left waiting: who waits listens, and a body that has come to its end has
\* an outcome, or a reply that is being persisted will give it one.
NobodyIsLeftWaiting ==
  \A t \in Tasks : settled[t] = "none" =>
    /\ at[t] = "waiting" => t \in listening \/ (t \in Senders /\ replied[t] # "no")
    /\ at[t] = "over" => t \in Senders /\ replied[t] \in {"resuming", "exiting"}

\* The outcome that the flow goes on with is the one that is stored.  It is not when a
\* receiver took the message of a sender that had given up, and when the loop of an
\* interrupted sender gives up, which nobody stops.
SettledAsStored ==
  \A t \in Tasks :
    /\ settled[t] = "resolved" => row[t] = "finished"
    /\ settled[t] = "interrupted" =>
         row[t] = "finished" \/ (t \in Senders /\ MaxRetries[t] > 0 /\ row[t] = "error")
    /\ settled[t] = "rejected" =>
         row[t] = "error" \/ \E r \in Receivers : taken[r] \in {u \in Senders : Name[u] = Name[t]}

\* A closed row is rewritten by an interruption, or by a reply to a sender that has
\* given up, and by nothing else: not by a restart, a repeated message or a second reply.
ClosedRowStays ==
  [][\A t \in Tasks : row[t] \in {"finished", "error"} /\ row'[t] # row[t] =>
       settled'[t] = "interrupted" \/ (t \in Senders /\ row[t] = "error" /\ row'[t] = "resumed")]_vars

\* A sender with a limit settles, whether anybody receives or not.
LimitedSenderSettles ==
  \A s \in Senders : MaxRetries[s] > 0 => <>(settled[s] # "none")

\* A sender without a limit that waits is answered once a receiver of its name
\* takes a message, whoever sent it and whoever comes first, unless that receiver
\* is interrupted, or a restart comes after it took the message: between its
\* persistOnResume and its reply the reply is lost.
UnlimitedSenderIsAnswered ==
  \A s \in Senders, r \in Receivers, k \in 0 .. MaxCrashes :
    (MaxRetries[s] = 0 /\ Name[s] = Name[r]) =>
      (boot = k /\ at[s] = "waiting" /\ row[r] \in {"absent", "running", "suspended"}
         ~> settled[s] # "none" \/ settled[r] = "interrupted" \/ boot > k)

=============================================================================
