-------------------------- MODULE SendReceiveProofs --------------------------
(***************************************************************************)
(* Proofs about SendReceive, for any tasks, names, limits and restarts.    *)
(* What a sender learns of its message is only the name in a reply; the    *)
(* invariant follows it back to the message a receiver has taken.          *)
(***************************************************************************)
EXTENDS SendReceive, TLAPS

\* The parts of TypeOK.
Values ==
  /\ row \in [Tasks -> Rows]
  /\ at \in [Tasks -> Places]
  /\ settled \in [Tasks -> {"none", "resolved", "rejected", "interrupted"}]
  /\ taken \in [Receivers -> Senders \cup {Nobody}]
  /\ replied \in [Senders -> {"no", "resuming", "exiting", "done"}]
Counters ==
  /\ boot \in 0 .. MaxCrashes
  /\ attempts \in [Senders -> Nat]
  /\ \A s \in Senders : attempts[s] <= MaxRetries[s]
Nets ==
  /\ listening \subseteq Tasks
  /\ messages \subseteq Senders \X Receivers
  /\ replies \subseteq Receivers \X Senders

\* Events find their way by name.
SameNames ==
  /\ \A s \in Senders, r \in Receivers : <<s, r>> \in messages => Name[s] = Name[r]
  /\ \A s \in Senders, r \in Receivers : <<r, s>> \in replies => Name[s] = Name[r]
  /\ \A r \in Receivers : taken[r] # Nobody => Name[taken[r]] = Name[r]

\* A receiver that can still get a message has none.
Untaken ==
  \A r \in Receivers :
    (r \in listening \/ at[r] \in {"idle", "entering"} \/ row[r] \in {"absent", "running", "suspended"})
      => taken[r] = Nobody

\* Who replies, or has replied, has taken a message.
RepliesAfterMessage ==
  /\ \A r \in Receivers : at[r] = "resuming" => taken[r] # Nobody
  /\ \A s \in Senders, r \in Receivers : <<r, s>> \in replies => taken[r] # Nobody

Witness(s) == \E r \in Receivers : taken[r] \in {u \in Senders : Name[u] = Name[s]}

\* A sender that goes on has a receiver that took a message of its name: also one whose
\* row a restart finds finished, or resumed.
Witnessed ==
  \A s \in Senders :
    /\ Acknowledged(s) => Witness(s)
    /\ at[s] \in {"leaving", "exiting"} => Witness(s)
    /\ row[s] = "finished" /\ settled[s] = "none" => Witness(s)

\* A sender without a row has done nothing; the loop of one that has no reply has not
\* ended by a reply before a restart.
Beginning ==
  /\ \A s \in Senders : row[s] = "absent" => at[s] = "idle" /\ replied[s] = "no" /\ settled[s] = "none"
  /\ \A s \in Senders :
       at[s] \in {"idle", "entering", "suspending", "waiting"} /\ replied[s] = "no"
         => row[s] # "resumed" /\ settled[s] # "resolved"

IInv == TypeOK /\ SameNames /\ Untaken /\ RepliesAfterMessage /\ Witnessed /\ Beginning

LEMMA TypeParts == (TypeOK <=> Values /\ Counters /\ Nets) /\ (TypeOK' <=> Values' /\ Counters' /\ Nets')
  BY DEF TypeOK, Values, Counters, Nets

LEMMA Disjoint == /\ Senders \subseteq Tasks /\ Receivers \subseteq Tasks
                  /\ \A s \in Senders, r \in Receivers : s # r
                  /\ Nobody \notin Senders
  BY ConstantsAssumption DEF Tasks

LEMMA InitHolds == ASSUME Init PROVE IInv
<1>1. Values
  BY Disjoint DEF Init, Values, Rows, Places
<1>2. Counters
  BY ConstantsAssumption DEF Init, Counters
<1>3. Nets
  BY DEF Init, Nets
<1>4. SameNames /\ RepliesAfterMessage
  BY Disjoint DEF Init, SameNames, RepliesAfterMessage
<1>5. Untaken
  BY DEF Init, Untaken
<1>6. Witnessed
  BY Disjoint DEF Init, Witnessed, Acknowledged
<1>7. Beginning
  BY Disjoint DEF Init, Beginning
<1> QED
  BY <1>1, <1>2, <1>3, <1>4, <1>5, <1>6, <1>7, TypeParts DEF IInv

\* Rows, places and outcomes.
LEMMA Valuing == ASSUME Values, [Next]_vars PROVE Values'
<1> USE Disjoint DEF Values, Rows, Places
<1>1. CASE \E t \in Tasks : Begin(t)
  BY <1>1 DEF Begin, netVars
<1>2. CASE \E t \in Tasks : ContinueAfterResume(t)
  BY <1>2 DEF ContinueAfterResume, netVars
<1>3. CASE \E t \in Tasks : Exited(t)
  BY <1>3 DEF Exited, Settle, dbVars, netVars
<1>4. CASE \E t \in Tasks : Interrupted(t)
  BY <1>4 DEF Interrupted, Settle
<1>5. CASE \E s \in Senders : Suspend(s)
  BY <1>5 DEF Suspend, netVars
<1>6. CASE \E s \in Senders : ExecuteSend(s)
  BY <1>6 DEF ExecuteSend, Send, dbVars
<1>7. CASE \E s \in Senders : Retry(s)
  BY <1>7 DEF Retry, Send, GivesUp, Unanswered
<1>8. CASE \E s \in Senders : Failed(s)
  BY <1>8 DEF Failed, Settle, dbVars, netVars
<1>9. CASE \E s \in Senders : ReplyPersisted(s)
  BY <1>9 DEF ReplyPersisted, netVars
<1>10. CASE \E s \in Senders : ReplyDone(s)
  BY <1>10 DEF ReplyDone, Settle, dbVars, netVars
<1>11. CASE \E r \in Receivers : ExecuteReceive(r)
  BY <1>11 DEF ExecuteReceive
<1>12. CASE \E r \in Receivers : Reply(r)
  BY <1>12 DEF Reply, RepliesOf
<1>13. CASE \E s \in Senders, r \in Receivers : MessageReceived(s, r)
  BY <1>13 DEF MessageReceived
<1>14. CASE \E s \in Senders, r \in Receivers : ReplyReceived(r, s)
  BY <1>14 DEF ReplyReceived
<1>15. CASE CrashAndResume
  BY <1>15 DEF CrashAndResume, ResumedAt, ResumedAs, StartsOver
<1>16. CASE UNCHANGED vars
  BY <1>16 DEF vars, dbVars, netVars
<1> QED
  BY <1>1, <1>2, <1>3, <1>4, <1>5, <1>6, <1>7, <1>8, <1>9, <1>10, <1>11, <1>12, <1>13, <1>14, <1>15, <1>16 DEF Next, TaskStep, SenderStep, CallbackStep, ReceiverStep

\* No sender counts beyond its limit.
LEMMA Counting == ASSUME Counters, [Next]_vars PROVE Counters'
<1> USE ConstantsAssumption DEF Counters
<1>1. CASE \E t \in Tasks : Begin(t)
  BY <1>1 DEF Begin, netVars
<1>2. CASE \E t \in Tasks : ContinueAfterResume(t)
  BY <1>2 DEF ContinueAfterResume, netVars
<1>3. CASE \E t \in Tasks : Exited(t)
  BY <1>3 DEF Exited, Settle, dbVars, netVars
<1>4. CASE \E t \in Tasks : Interrupted(t)
  BY <1>4 DEF Interrupted, Settle
<1>5. CASE \E s \in Senders : Suspend(s)
  BY <1>5 DEF Suspend, netVars
<1>6. CASE \E s \in Senders : ExecuteSend(s)
  BY <1>6 DEF ExecuteSend, Send, dbVars, Count, UsedUp
<1>7. CASE \E s \in Senders : Retry(s)
  BY <1>7 DEF Retry, Send, GivesUp, Unanswered, Count, UsedUp
<1>8. CASE \E s \in Senders : Failed(s)
  BY <1>8 DEF Failed, Settle, dbVars, netVars
<1>9. CASE \E s \in Senders : ReplyPersisted(s)
  BY <1>9 DEF ReplyPersisted, netVars
<1>10. CASE \E s \in Senders : ReplyDone(s)
  BY <1>10 DEF ReplyDone, Settle, dbVars, netVars
<1>11. CASE \E r \in Receivers : ExecuteReceive(r)
  BY <1>11 DEF ExecuteReceive
<1>12. CASE \E r \in Receivers : Reply(r)
  BY <1>12 DEF Reply, RepliesOf
<1>13. CASE \E s \in Senders, r \in Receivers : MessageReceived(s, r)
  BY <1>13 DEF MessageReceived
<1>14. CASE \E s \in Senders, r \in Receivers : ReplyReceived(r, s)
  BY <1>14 DEF ReplyReceived
<1>15. CASE CrashAndResume
  BY <1>15 DEF CrashAndResume, ResumedAt, ResumedAs, StartsOver
<1>16. CASE UNCHANGED vars
  BY <1>16 DEF vars, dbVars, netVars
<1> QED
  BY <1>1, <1>2, <1>3, <1>4, <1>5, <1>6, <1>7, <1>8, <1>9, <1>10, <1>11, <1>12, <1>13, <1>14, <1>15, <1>16 DEF Next, TaskStep, SenderStep, CallbackStep, ReceiverStep

\* Subscriptions and events on their way.
LEMMA Netting == ASSUME Nets, [Next]_vars PROVE Nets'
<1> USE Disjoint DEF Nets
<1>1. CASE \E t \in Tasks : Begin(t)
  BY <1>1 DEF Begin, netVars
<1>2. CASE \E t \in Tasks : ContinueAfterResume(t)
  BY <1>2 DEF ContinueAfterResume, netVars
<1>3. CASE \E t \in Tasks : Exited(t)
  BY <1>3 DEF Exited, Settle, dbVars, netVars
<1>4. CASE \E t \in Tasks : Interrupted(t)
  BY <1>4 DEF Interrupted, Settle
<1>5. CASE \E s \in Senders : Suspend(s)
  BY <1>5 DEF Suspend, netVars
<1>6. CASE \E s \in Senders : ExecuteSend(s)
  BY <1>6 DEF ExecuteSend, Send, dbVars
<1>7. CASE \E s \in Senders : Retry(s)
  BY <1>7 DEF Retry, Send, GivesUp, Unanswered
<1>8. CASE \E s \in Senders : Failed(s)
  BY <1>8 DEF Failed, Settle, dbVars, netVars
<1>9. CASE \E s \in Senders : ReplyPersisted(s)
  BY <1>9 DEF ReplyPersisted, netVars
<1>10. CASE \E s \in Senders : ReplyDone(s)
  BY <1>10 DEF ReplyDone, Settle, dbVars, netVars
<1>11. CASE \E r \in Receivers : ExecuteReceive(r)
  BY <1>11 DEF ExecuteReceive
<1>12. CASE \E r \in Receivers : Reply(r)
  BY <1>12 DEF Reply, RepliesOf
<1>13. CASE \E s \in Senders, r \in Receivers : MessageReceived(s, r)
  BY <1>13 DEF MessageReceived
<1>14. CASE \E s \in Senders, r \in Receivers : ReplyReceived(r, s)
  BY <1>14 DEF ReplyReceived
<1>15. CASE CrashAndResume
  BY <1>15 DEF CrashAndResume, ResumedAt, ResumedAs, StartsOver
<1>16. CASE UNCHANGED vars
  BY <1>16 DEF vars, dbVars, netVars
<1> QED
  BY <1>1, <1>2, <1>3, <1>4, <1>5, <1>6, <1>7, <1>8, <1>9, <1>10, <1>11, <1>12, <1>13, <1>14, <1>15, <1>16 DEF Next, TaskStep, SenderStep, CallbackStep, ReceiverStep

\* A message goes to receivers of its name, and so does the reply.
LEMMA Naming == ASSUME Values, Nets, SameNames, [Next]_vars PROVE SameNames'
<1> USE Disjoint DEF Values, Nets, SameNames
<1>1. CASE \E t \in Tasks : Begin(t)
  BY <1>1 DEF Begin, netVars
<1>2. CASE \E t \in Tasks : ContinueAfterResume(t)
  BY <1>2 DEF ContinueAfterResume, netVars
<1>3. CASE \E t \in Tasks : Exited(t)
  BY <1>3 DEF Exited, Settle, dbVars, netVars
<1>4. CASE \E t \in Tasks : Interrupted(t)
  BY <1>4 DEF Interrupted, Settle
<1>5. CASE \E s \in Senders : Suspend(s)
  BY <1>5 DEF Suspend, netVars
<1>6. CASE \E s \in Senders : ExecuteSend(s)
  BY <1>6 DEF ExecuteSend, Send, dbVars
<1>7. CASE \E s \in Senders : Retry(s)
  BY <1>7 DEF Retry, Send, GivesUp, Unanswered
<1>8. CASE \E s \in Senders : Failed(s)
  BY <1>8 DEF Failed, Settle, dbVars, netVars
<1>9. CASE \E s \in Senders : ReplyPersisted(s)
  BY <1>9 DEF ReplyPersisted, netVars
<1>10. CASE \E s \in Senders : ReplyDone(s)
  BY <1>10 DEF ReplyDone, Settle, dbVars, netVars
<1>11. CASE \E r \in Receivers : ExecuteReceive(r)
  BY <1>11 DEF ExecuteReceive
<1>12. CASE \E r \in Receivers : Reply(r)
  BY <1>12 DEF Reply, RepliesOf
<1>13. CASE \E s \in Senders, r \in Receivers : MessageReceived(s, r)
  BY <1>13 DEF MessageReceived
<1>14. CASE \E s \in Senders, r \in Receivers : ReplyReceived(r, s)
  BY <1>14 DEF ReplyReceived
<1>15. CASE CrashAndResume
  BY <1>15 DEF CrashAndResume, ResumedAt, ResumedAs, StartsOver
<1>16. CASE UNCHANGED vars
  BY <1>16 DEF vars, dbVars, netVars
<1> QED
  BY <1>1, <1>2, <1>3, <1>4, <1>5, <1>6, <1>7, <1>8, <1>9, <1>10, <1>11, <1>12, <1>13, <1>14, <1>15, <1>16 DEF Next, TaskStep, SenderStep, CallbackStep, ReceiverStep

\* A message is taken by a receiver that has none.
LEMMA Taking == ASSUME Values, Nets, Untaken, [Next]_vars PROVE Untaken'
<1> USE Disjoint DEF Values, Nets, Untaken
<1>1. CASE \E t \in Tasks : Begin(t)
  BY <1>1 DEF Begin, netVars
<1>2. CASE \E t \in Tasks : ContinueAfterResume(t)
  BY <1>2 DEF ContinueAfterResume, netVars
<1>3. CASE \E t \in Tasks : Exited(t)
  BY <1>3 DEF Exited, Settle, dbVars, netVars
<1>4. CASE \E t \in Tasks : Interrupted(t)
  BY <1>4 DEF Interrupted, Settle
<1>5. CASE \E s \in Senders : Suspend(s)
  BY <1>5 DEF Suspend, netVars
<1>6. CASE \E s \in Senders : ExecuteSend(s)
  BY <1>6 DEF ExecuteSend, Send, dbVars
<1>7. CASE \E s \in Senders : Retry(s)
  BY <1>7 DEF Retry, Send, GivesUp, Unanswered
<1>8. CASE \E s \in Senders : Failed(s)
  BY <1>8 DEF Failed, Settle, dbVars, netVars
<1>9. CASE \E s \in Senders : ReplyPersisted(s)
  BY <1>9 DEF ReplyPersisted, netVars
<1>10. CASE \E s \in Senders : ReplyDone(s)
  BY <1>10 DEF ReplyDone, Settle, dbVars, netVars
<1>11. CASE \E r \in Receivers : ExecuteReceive(r)
  BY <1>11 DEF ExecuteReceive
<1>12. CASE \E r \in Receivers : Reply(r)
  BY <1>12 DEF Reply, RepliesOf
<1>13. CASE \E s \in Senders, r \in Receivers : MessageReceived(s, r)
  BY <1>13 DEF MessageReceived
<1>14. CASE \E s \in Senders, r \in Receivers : ReplyReceived(r, s)
  BY <1>14 DEF ReplyReceived
<1>15. CASE CrashAndResume
  BY <1>15 DEF CrashAndResume, ResumedAt, ResumedAs, StartsOver
<1>16. CASE UNCHANGED vars
  BY <1>16 DEF vars, dbVars, netVars
<1> QED
  BY <1>1, <1>2, <1>3, <1>4, <1>5, <1>6, <1>7, <1>8, <1>9, <1>10, <1>11, <1>12, <1>13, <1>14, <1>15, <1>16 DEF Next, TaskStep, SenderStep, CallbackStep, ReceiverStep

\* A receiver keeps the message it has replied to.
LEMMA Replying == ASSUME Values, Nets, Untaken, RepliesAfterMessage, [Next]_vars PROVE RepliesAfterMessage'
<1> USE Disjoint DEF Values, Nets, Untaken, RepliesAfterMessage
<1>1. CASE \E t \in Tasks : Begin(t)
  BY <1>1 DEF Begin, netVars
<1>2. CASE \E t \in Tasks : ContinueAfterResume(t)
  BY <1>2 DEF ContinueAfterResume, netVars
<1>3. CASE \E t \in Tasks : Exited(t)
  BY <1>3 DEF Exited, Settle, dbVars, netVars
<1>4. CASE \E t \in Tasks : Interrupted(t)
  BY <1>4 DEF Interrupted, Settle
<1>5. CASE \E s \in Senders : Suspend(s)
  BY <1>5 DEF Suspend, netVars
<1>6. CASE \E s \in Senders : ExecuteSend(s)
  BY <1>6 DEF ExecuteSend, Send, dbVars
<1>7. CASE \E s \in Senders : Retry(s)
  BY <1>7 DEF Retry, Send, GivesUp, Unanswered
<1>8. CASE \E s \in Senders : Failed(s)
  BY <1>8 DEF Failed, Settle, dbVars, netVars
<1>9. CASE \E s \in Senders : ReplyPersisted(s)
  BY <1>9 DEF ReplyPersisted, netVars
<1>10. CASE \E s \in Senders : ReplyDone(s)
  BY <1>10 DEF ReplyDone, Settle, dbVars, netVars
<1>11. CASE \E r \in Receivers : ExecuteReceive(r)
  BY <1>11 DEF ExecuteReceive
<1>12. CASE \E r \in Receivers : Reply(r)
  BY <1>12 DEF Reply, RepliesOf
<1>13. CASE \E s \in Senders, r \in Receivers : MessageReceived(s, r)
  BY <1>13 DEF MessageReceived
<1>14. CASE \E s \in Senders, r \in Receivers : ReplyReceived(r, s)
  BY <1>14 DEF ReplyReceived
<1>15. CASE CrashAndResume
  BY <1>15 DEF CrashAndResume, ResumedAt, ResumedAs, StartsOver
<1>16. CASE UNCHANGED vars
  BY <1>16 DEF vars, dbVars, netVars
<1> QED
  BY <1>1, <1>2, <1>3, <1>4, <1>5, <1>6, <1>7, <1>8, <1>9, <1>10, <1>11, <1>12, <1>13, <1>14, <1>15, <1>16 DEF Next, TaskStep, SenderStep, CallbackStep, ReceiverStep

\* The receiver that took the message keeps it.
LEMMA WitnessStays == ASSUME Values, Nets, Untaken, [Next]_vars PROVE (\A s \in Senders : Witness(s) => Witness(s)')
<1> USE Disjoint DEF Values, Untaken, Witness
<1>1. CASE \E t \in Tasks : Begin(t)
  BY <1>1 DEF Begin, netVars
<1>2. CASE \E t \in Tasks : ContinueAfterResume(t)
  BY <1>2 DEF ContinueAfterResume, netVars
<1>3. CASE \E t \in Tasks : Exited(t)
  BY <1>3 DEF Exited, Settle, dbVars, netVars
<1>4. CASE \E t \in Tasks : Interrupted(t)
  BY <1>4 DEF Interrupted, Settle
<1>5. CASE \E s \in Senders : Suspend(s)
  BY <1>5 DEF Suspend, netVars
<1>6. CASE \E s \in Senders : ExecuteSend(s)
  BY <1>6 DEF ExecuteSend, Send, dbVars
<1>7. CASE \E s \in Senders : Retry(s)
  BY <1>7 DEF Retry, Send, GivesUp, Unanswered
<1>8. CASE \E s \in Senders : Failed(s)
  BY <1>8 DEF Failed, Settle, dbVars, netVars
<1>9. CASE \E s \in Senders : ReplyPersisted(s)
  BY <1>9 DEF ReplyPersisted, netVars
<1>10. CASE \E s \in Senders : ReplyDone(s)
  BY <1>10 DEF ReplyDone, Settle, dbVars, netVars
<1>11. CASE \E r \in Receivers : ExecuteReceive(r)
  BY <1>11 DEF ExecuteReceive
<1>12. CASE \E r \in Receivers : Reply(r)
  BY <1>12 DEF Reply, RepliesOf
<1>13. CASE \E s \in Senders, r \in Receivers : MessageReceived(s, r)
  BY <1>13 DEF MessageReceived
<1>14. CASE \E s \in Senders, r \in Receivers : ReplyReceived(r, s)
  BY <1>14 DEF ReplyReceived
<1>15. CASE CrashAndResume
  BY <1>15 DEF CrashAndResume, ResumedAt, ResumedAs, StartsOver
<1>16. CASE UNCHANGED vars
  BY <1>16 DEF vars, dbVars, netVars
<1> QED
  BY <1>1, <1>2, <1>3, <1>4, <1>5, <1>6, <1>7, <1>8, <1>9, <1>10, <1>11, <1>12, <1>13, <1>14, <1>15, <1>16 DEF Next, TaskStep, SenderStep, CallbackStep, ReceiverStep

\* Each step towards the end of a sender passes the witness on.
LEMMA Witnessing == ASSUME Values, Nets, SameNames, Untaken, RepliesAfterMessage, Witnessed, \A s \in Senders : Witness(s) => Witness(s)', [Next]_vars PROVE Witnessed'
<1> USE Disjoint DEF Values, Rows, Nets, Witnessed, Acknowledged
<1>1. CASE \E t \in Tasks : Begin(t)
  BY <1>1 DEF Begin, netVars
<1>2. CASE \E t \in Tasks : ContinueAfterResume(t)
  BY <1>2 DEF ContinueAfterResume, netVars
<1>3. CASE \E t \in Tasks : Exited(t)
  BY <1>3 DEF Exited, Settle, dbVars, netVars
<1>4. CASE \E t \in Tasks : Interrupted(t)
  BY <1>4 DEF Interrupted, Settle
<1>5. CASE \E s \in Senders : Suspend(s)
  BY <1>5 DEF Suspend, netVars
<1>6. CASE \E s \in Senders : ExecuteSend(s)
  BY <1>6 DEF ExecuteSend, Send, dbVars
<1>7. CASE \E s \in Senders : Retry(s)
  BY <1>7 DEF Retry, Send, GivesUp, Unanswered
<1>8. CASE \E s \in Senders : Failed(s)
  BY <1>8 DEF Failed, Settle, dbVars, netVars
<1>9. CASE \E s \in Senders : ReplyPersisted(s)
  BY <1>9 DEF ReplyPersisted, netVars
<1>10. CASE \E s \in Senders : ReplyDone(s)
  BY <1>10 DEF ReplyDone, Settle, dbVars, netVars
<1>11. CASE \E r \in Receivers : ExecuteReceive(r)
  BY <1>11 DEF ExecuteReceive
<1>12. CASE \E r \in Receivers : Reply(r)
  BY <1>12 DEF Reply, RepliesOf
<1>13. CASE \E s \in Senders, r \in Receivers : MessageReceived(s, r)
  BY <1>13 DEF MessageReceived
<1>14. CASE \E s \in Senders, r \in Receivers : ReplyReceived(r, s)
  BY <1>14 DEF ReplyReceived, SameNames, RepliesAfterMessage, Witness
<1>15. CASE CrashAndResume
  BY <1>15 DEF CrashAndResume, ResumedAt, ResumedAs, StartsOver
<1>16. CASE UNCHANGED vars
  BY <1>16 DEF vars, dbVars, netVars
<1> QED
  BY <1>1, <1>2, <1>3, <1>4, <1>5, <1>6, <1>7, <1>8, <1>9, <1>10, <1>11, <1>12, <1>13, <1>14, <1>15, <1>16 DEF Next, TaskStep, SenderStep, CallbackStep, ReceiverStep

\* A loop without a reply has not ended by one.
LEMMA Begins == ASSUME Values, Beginning, [Next]_vars PROVE Beginning'
<1> USE Disjoint DEF Values, Beginning
<1>1. CASE \E t \in Tasks : Begin(t)
  BY <1>1 DEF Begin, netVars
<1>2. CASE \E t \in Tasks : ContinueAfterResume(t)
  BY <1>2 DEF ContinueAfterResume, netVars
<1>3. CASE \E t \in Tasks : Exited(t)
  BY <1>3 DEF Exited, Settle, dbVars, netVars
<1>4. CASE \E t \in Tasks : Interrupted(t)
  BY <1>4 DEF Interrupted, Settle
<1>5. CASE \E s \in Senders : Suspend(s)
  BY <1>5 DEF Suspend, netVars
<1>6. CASE \E s \in Senders : ExecuteSend(s)
  BY <1>6 DEF ExecuteSend, Send, dbVars
<1>7. CASE \E s \in Senders : Retry(s)
  BY <1>7 DEF Retry, Send, GivesUp, Unanswered
<1>8. CASE \E s \in Senders : Failed(s)
  BY <1>8 DEF Failed, Settle, dbVars, netVars
<1>9. CASE \E s \in Senders : ReplyPersisted(s)
  BY <1>9 DEF ReplyPersisted, netVars
<1>10. CASE \E s \in Senders : ReplyDone(s)
  BY <1>10 DEF ReplyDone, Settle, dbVars, netVars
<1>11. CASE \E r \in Receivers : ExecuteReceive(r)
  BY <1>11 DEF ExecuteReceive
<1>12. CASE \E r \in Receivers : Reply(r)
  BY <1>12 DEF Reply, RepliesOf
<1>13. CASE \E s \in Senders, r \in Receivers : MessageReceived(s, r)
  BY <1>13 DEF MessageReceived
<1>14. CASE \E s \in Senders, r \in Receivers : ReplyReceived(r, s)
  BY <1>14 DEF ReplyReceived
<1>15. CASE CrashAndResume
  BY <1>15 DEF CrashAndResume, ResumedAt, ResumedAs, StartsOver
<1>16. CASE UNCHANGED vars
  BY <1>16 DEF vars, dbVars, netVars
<1> QED
  BY <1>1, <1>2, <1>3, <1>4, <1>5, <1>6, <1>7, <1>8, <1>9, <1>10, <1>11, <1>12, <1>13, <1>14, <1>15, <1>16 DEF Next, TaskStep, SenderStep, CallbackStep, ReceiverStep

LEMMA StepHolds == ASSUME IInv, [Next]_vars PROVE IInv'
  BY TypeParts, Valuing, Counting, Netting, Naming, Taking, Replying, WitnessStays, Witnessing, Begins DEF IInv

LEMMA Inductive == Spec => []IInv
  BY InitHolds, StepHolds, PTL DEF Spec

\* Every variable keeps its type, and no sender sends more often than its limit.
THEOREM SendReceiveTypes == Spec => []TypeOK
<1>1. IInv => TypeOK
  BY DEF IInv
<1> QED
  BY <1>1, Inductive, PTL

\* A sender goes on only if a receiver has taken a message of its name, whatever is
\* repeated, lost, interrupted or restarted.
THEOREM GoesOnWhenReceived == Spec => []AcknowledgedIsReceived
<1>1. IInv => AcknowledgedIsReceived
  BY DEF IInv, Witnessed, Witness, AcknowledgedIsReceived
<1> QED
  BY <1>1, Inductive, PTL

\* A receiver that has taken a message never takes another one.
THEOREM ReceiverTakesOneMessage == Spec => TakesOneMessage
<1>1. IInv /\ [Next]_vars => [\A r \in Receivers : taken[r] # Nobody => taken'[r] = taken[r]]_vars
  <2> SUFFICES ASSUME IInv, [Next]_vars, NEW r \in Receivers, taken[r] # Nobody PROVE taken'[r] = taken[r]
    OBVIOUS
  <2>1. Values /\ Nets /\ Untaken
    BY TypeParts DEF IInv
  <2> USE <2>1, Disjoint DEF Values, Untaken
  <2>2. CASE \E t \in Tasks : Begin(t)
    BY <2>2 DEF Begin, netVars
  <2>3. CASE \E t \in Tasks : ContinueAfterResume(t)
    BY <2>3 DEF ContinueAfterResume, netVars
  <2>4. CASE \E t \in Tasks : Exited(t)
    BY <2>4 DEF Exited, Settle, dbVars, netVars
  <2>5. CASE \E t \in Tasks : Interrupted(t)
    BY <2>5 DEF Interrupted, Settle
  <2>6. CASE \E u \in Senders : Suspend(u)
    BY <2>6 DEF Suspend, netVars
  <2>7. CASE \E u \in Senders : ExecuteSend(u)
    BY <2>7 DEF ExecuteSend, Send, dbVars
  <2>8. CASE \E u \in Senders : Retry(u)
    BY <2>8 DEF Retry, Send, GivesUp, Unanswered
  <2>9. CASE \E u \in Senders : Failed(u)
    BY <2>9 DEF Failed, Settle, dbVars, netVars
  <2>10. CASE \E u \in Senders : ReplyPersisted(u)
    BY <2>10 DEF ReplyPersisted, netVars
  <2>11. CASE \E u \in Senders : ReplyDone(u)
    BY <2>11 DEF ReplyDone, Settle, dbVars, netVars
  <2>12. CASE \E q \in Receivers : ExecuteReceive(q)
    BY <2>12 DEF ExecuteReceive
  <2>13. CASE \E q \in Receivers : Reply(q)
    BY <2>13 DEF Reply, RepliesOf
  <2>14. CASE \E u \in Senders, q \in Receivers : MessageReceived(u, q)
    BY <2>14 DEF MessageReceived
  <2>15. CASE \E u \in Senders, q \in Receivers : ReplyReceived(q, u)
    BY <2>15 DEF ReplyReceived
  <2>16. CASE CrashAndResume
    BY <2>16 DEF CrashAndResume, ResumedAt, ResumedAs, StartsOver
  <2>17. CASE UNCHANGED vars
    BY <2>17 DEF vars, dbVars, netVars
  <2> QED
    BY <2>2, <2>3, <2>4, <2>5, <2>6, <2>7, <2>8, <2>9, <2>10, <2>11, <2>12, <2>13, <2>14, <2>15, <2>16, <2>17 DEF Next, TaskStep, SenderStep, CallbackStep, ReceiverStep
<1> QED
  BY <1>1, Inductive, PTL DEF Spec, TakesOneMessage

\* The end of the attempts does not override a reply that is being persisted or has
\* been, in this boot or an earlier one.
THEOREM ReplyIsNotOverridden == Spec => ReplyBeatsTimeout
<1>1. IInv /\ [Next]_vars =>
       [\A s \in Senders : Acknowledged(s) /\ row[s] # "error" => row'[s] # "error"]_vars
  <2> SUFFICES ASSUME IInv, [Next]_vars, NEW s \in Senders, Acknowledged(s), row[s] # "error"
               PROVE row'[s] # "error"
    OBVIOUS
  <2>1. Values /\ Beginning
    BY TypeParts DEF IInv
  <2> USE <2>1, Disjoint DEF Values, Beginning, Acknowledged
  <2>2. CASE \E t \in Tasks : Begin(t)
    BY <2>2 DEF Begin, netVars
  <2>3. CASE \E t \in Tasks : ContinueAfterResume(t)
    BY <2>3 DEF ContinueAfterResume, netVars
  <2>4. CASE \E t \in Tasks : Exited(t)
    BY <2>4 DEF Exited, Settle, dbVars, netVars
  <2>5. CASE \E t \in Tasks : Interrupted(t)
    BY <2>5 DEF Interrupted, Settle
  <2>6. CASE \E u \in Senders : Suspend(u)
    BY <2>6 DEF Suspend, netVars
  <2>7. CASE \E u \in Senders : ExecuteSend(u)
    BY <2>7 DEF ExecuteSend, Send, dbVars
  <2>8. CASE \E u \in Senders : Retry(u)
    BY <2>8 DEF Retry, Send, GivesUp, Unanswered
  <2>9. CASE \E u \in Senders : Failed(u)
    BY <2>9 DEF Failed, Settle, dbVars, netVars
  <2>10. CASE \E u \in Senders : ReplyPersisted(u)
    BY <2>10 DEF ReplyPersisted, netVars
  <2>11. CASE \E u \in Senders : ReplyDone(u)
    BY <2>11 DEF ReplyDone, Settle, dbVars, netVars
  <2>12. CASE \E q \in Receivers : ExecuteReceive(q)
    BY <2>12 DEF ExecuteReceive
  <2>13. CASE \E q \in Receivers : Reply(q)
    BY <2>13 DEF Reply, RepliesOf
  <2>14. CASE \E u \in Senders, q \in Receivers : MessageReceived(u, q)
    BY <2>14 DEF MessageReceived
  <2>15. CASE \E u \in Senders, q \in Receivers : ReplyReceived(q, u)
    BY <2>15 DEF ReplyReceived
  <2>16. CASE CrashAndResume
    BY <2>16 DEF CrashAndResume, ResumedAt, ResumedAs, StartsOver
  <2>17. CASE UNCHANGED vars
    BY <2>17 DEF vars, dbVars, netVars
  <2> QED
    BY <2>2, <2>3, <2>4, <2>5, <2>6, <2>7, <2>8, <2>9, <2>10, <2>11, <2>12, <2>13, <2>14, <2>15, <2>16, <2>17 DEF Next, TaskStep, SenderStep, CallbackStep, ReceiverStep
<1> QED
  BY <1>1, Inductive, PTL DEF Spec, ReplyBeatsTimeout

-----------------------------------------------------------------------------
(* Who waits is served, and what is closed stays closed              *)

\* Where the chains of a sender stand, what its row says and what it was settled as.
SenderPlace(s) ==
  /\ at[s] # "resuming"
  /\ at[s] \in {"idle", "entering", "suspending", "leaving"} =>
       settled[s] = "none" /\ replied[s] = "no" /\ s \notin listening
  /\ at[s] = "idle" => row[s] = "absent"
  /\ at[s] \in {"entering", "suspending"} => row[s] \in {"running", "suspended"}
  /\ at[s] = "leaving" => row[s] = "resumed"
  /\ at[s] = "exiting" => row[s] = "finished" /\ replied[s] = "no" /\ s \notin listening
                          /\ settled[s] \in {"none", "interrupted"}
  /\ s \in listening =>
       /\ replied[s] = "no"
       /\ \/ at[s] = "waiting" /\ row[s] \in {"running", "suspended"} /\ settled[s] = "none"
          \/ at[s] = "failing" /\ row[s] = "error" /\ settled[s] = "none"
          \/ at[s] = "over" /\ row[s] = "error" /\ settled[s] = "rejected"
  /\ at[s] \in {"waiting", "failing"} /\ replied[s] = "no" =>
       s \in listening \/ settled[s] = "interrupted"
  /\ at[s] = "over" /\ replied[s] = "no" => settled[s] # "none"
  /\ replied[s] = "resuming" => row[s] = "resumed" \/ settled[s] = "interrupted"
  /\ replied[s] \in {"exiting", "done"} => row[s] = "finished"
  /\ replied[s] = "done" => settled[s] # "none"
  /\ settled[s] = "resolved" => row[s] = "finished" /\ (at[s] = "over" \/ replied[s] = "done")
  /\ settled[s] = "rejected" => at[s] = "over"
  /\ settled[s] = "interrupted" => s \notin listening
  /\ settled[s] = "interrupted" => row[s] = "finished" \/ (MaxRetries[s] > 0 /\ row[s] = "error")

\* The same of a receiver, which never fails.
ReceiverPlace(r) ==
  /\ at[r] \notin {"suspending", "failing"} /\ row[r] # "error" /\ settled[r] # "rejected"
  /\ at[r] \in {"idle", "entering", "leaving"} => settled[r] = "none" /\ r \notin listening
  /\ at[r] = "idle" => row[r] = "absent"
  /\ at[r] = "entering" => row[r] \in {"running", "suspended"}
  /\ at[r] = "leaving" => row[r] = "resumed"
  /\ at[r] = "exiting" => row[r] = "finished"
  /\ r \in listening => at[r] = "waiting" /\ settled[r] = "none" /\ row[r] = "suspended"
  /\ at[r] = "waiting" => r \in listening \/ settled[r] = "interrupted"
  /\ at[r] = "resuming" => row[r] = "resumed" \/ settled[r] = "interrupted"
  /\ at[r] = "over" => settled[r] # "none"
  /\ settled[r] \in {"resolved", "interrupted"} => row[r] = "finished"

\* A sender that has failed has its row rewritten only when a receiver has its message.
Rejected(s) == settled[s] = "rejected" => row[s] = "error" \/ Witness(s)

Placed ==
  /\ \A s \in Senders : SenderPlace(s) /\ Rejected(s)
  /\ \A r \in Receivers : ReceiverPlace(r)

\* Every step takes a sender to a place of the list.
LEMMA SenderMoves == ASSUME Values, Nets, Beginning, NEW x \in Senders, SenderPlace(x), [Next]_vars PROVE SenderPlace(x)'
<1> USE Disjoint DEF Values, Nets, Rows, Beginning, SenderPlace
<1>1. CASE \E t \in Tasks : Begin(t)
  BY <1>1 DEF Begin, netVars
<1>2. CASE \E t \in Tasks : ContinueAfterResume(t)
  BY <1>2 DEF ContinueAfterResume, netVars
<1>3. CASE \E t \in Tasks : Exited(t)
  BY <1>3 DEF Exited, Settle, dbVars, netVars
<1>4. CASE \E t \in Tasks : Interrupted(t)
  BY <1>4 DEF Interrupted, Settle
<1>5. CASE \E s \in Senders : Suspend(s)
  BY <1>5 DEF Suspend, netVars
<1>6. CASE \E s \in Senders : ExecuteSend(s)
  BY <1>6 DEF ExecuteSend, Send, dbVars
<1>7. CASE \E s \in Senders : Retry(s)
  BY <1>7 DEF Retry, Send, GivesUp, UsedUp, Unanswered
<1>8. CASE \E s \in Senders : Failed(s)
  BY <1>8 DEF Failed, Settle, dbVars, netVars
<1>9. CASE \E s \in Senders : ReplyPersisted(s)
  BY <1>9 DEF ReplyPersisted, netVars
<1>10. CASE \E s \in Senders : ReplyDone(s)
  BY <1>10 DEF ReplyDone, Settle, dbVars, netVars
<1>11. CASE \E r \in Receivers : ExecuteReceive(r)
  BY <1>11 DEF ExecuteReceive
<1>12. CASE \E r \in Receivers : Reply(r)
  BY <1>12 DEF Reply, RepliesOf
<1>13. CASE \E s \in Senders, r \in Receivers : MessageReceived(s, r)
  BY <1>13 DEF MessageReceived
<1>14. CASE \E s \in Senders, r \in Receivers : ReplyReceived(r, s)
  BY <1>14 DEF ReplyReceived
<1>15. CASE CrashAndResume
  BY <1>15 DEF CrashAndResume, ResumedAt, ResumedAs, StartsOver
<1>16. CASE UNCHANGED vars
  BY <1>16 DEF vars, dbVars, netVars
<1> QED
  BY <1>1, <1>2, <1>3, <1>4, <1>5, <1>6, <1>7, <1>8, <1>9, <1>10, <1>11, <1>12, <1>13, <1>14, <1>15, <1>16 DEF Next, TaskStep, SenderStep, CallbackStep, ReceiverStep

\* Every step takes a receiver to a place of the list.
LEMMA ReceiverMoves == ASSUME Values, Nets, NEW x \in Receivers, ReceiverPlace(x), [Next]_vars PROVE ReceiverPlace(x)'
<1> USE Disjoint DEF Values, Nets, Rows, ReceiverPlace
<1>1. CASE \E t \in Tasks : Begin(t)
  BY <1>1 DEF Begin, netVars
<1>2. CASE \E t \in Tasks : ContinueAfterResume(t)
  BY <1>2 DEF ContinueAfterResume, netVars
<1>3. CASE \E t \in Tasks : Exited(t)
  BY <1>3 DEF Exited, Settle, dbVars, netVars
<1>4. CASE \E t \in Tasks : Interrupted(t)
  BY <1>4 DEF Interrupted, Settle
<1>5. CASE \E s \in Senders : Suspend(s)
  BY <1>5 DEF Suspend, netVars
<1>6. CASE \E s \in Senders : ExecuteSend(s)
  BY <1>6 DEF ExecuteSend, Send, dbVars
<1>7. CASE \E s \in Senders : Retry(s)
  BY <1>7 DEF Retry, Send, GivesUp, UsedUp, Unanswered
<1>8. CASE \E s \in Senders : Failed(s)
  BY <1>8 DEF Failed, Settle, dbVars, netVars
<1>9. CASE \E s \in Senders : ReplyPersisted(s)
  BY <1>9 DEF ReplyPersisted, netVars
<1>10. CASE \E s \in Senders : ReplyDone(s)
  BY <1>10 DEF ReplyDone, Settle, dbVars, netVars
<1>11. CASE \E r \in Receivers : ExecuteReceive(r)
  BY <1>11 DEF ExecuteReceive
<1>12. CASE \E r \in Receivers : Reply(r)
  BY <1>12 DEF Reply, RepliesOf
<1>13. CASE \E s \in Senders, r \in Receivers : MessageReceived(s, r)
  BY <1>13 DEF MessageReceived
<1>14. CASE \E s \in Senders, r \in Receivers : ReplyReceived(r, s)
  BY <1>14 DEF ReplyReceived
<1>15. CASE CrashAndResume
  BY <1>15 DEF CrashAndResume, ResumedAt, ResumedAs, StartsOver
<1>16. CASE UNCHANGED vars
  BY <1>16 DEF vars, dbVars, netVars
<1> QED
  BY <1>1, <1>2, <1>3, <1>4, <1>5, <1>6, <1>7, <1>8, <1>9, <1>10, <1>11, <1>12, <1>13, <1>14, <1>15, <1>16 DEF Next, TaskStep, SenderStep, CallbackStep, ReceiverStep

\* A sender fails with its row in error, or with a reply that has come all the same.
LEMMA Rejecting == ASSUME Values, Nets, Witnessed, Witnessed', NEW x \in Senders, Witness(x) => Witness(x)', SenderPlace(x), Rejected(x), [Next]_vars PROVE Rejected(x)'
<1> USE Disjoint DEF Values, Nets, Rows, SenderPlace, Rejected, Witnessed, Acknowledged
<1>1. CASE \E t \in Tasks : Begin(t)
  BY <1>1 DEF Begin, netVars
<1>2. CASE \E t \in Tasks : ContinueAfterResume(t)
  BY <1>2 DEF ContinueAfterResume, netVars
<1>3. CASE \E t \in Tasks : Exited(t)
  BY <1>3 DEF Exited, Settle, dbVars, netVars
<1>4. CASE \E t \in Tasks : Interrupted(t)
  BY <1>4 DEF Interrupted, Settle
<1>5. CASE \E s \in Senders : Suspend(s)
  BY <1>5 DEF Suspend, netVars
<1>6. CASE \E s \in Senders : ExecuteSend(s)
  BY <1>6 DEF ExecuteSend, Send, dbVars
<1>7. CASE \E s \in Senders : Retry(s)
  BY <1>7 DEF Retry, Send, GivesUp, UsedUp, Unanswered
<1>8. CASE \E s \in Senders : Failed(s)
  BY <1>8 DEF Failed, Settle, dbVars, netVars
<1>9. CASE \E s \in Senders : ReplyPersisted(s)
  BY <1>9 DEF ReplyPersisted, netVars
<1>10. CASE \E s \in Senders : ReplyDone(s)
  BY <1>10 DEF ReplyDone, Settle, dbVars, netVars
<1>11. CASE \E r \in Receivers : ExecuteReceive(r)
  BY <1>11 DEF ExecuteReceive
<1>12. CASE \E r \in Receivers : Reply(r)
  BY <1>12 DEF Reply, RepliesOf
<1>13. CASE \E s \in Senders, r \in Receivers : MessageReceived(s, r)
  BY <1>13 DEF MessageReceived
<1>14. CASE \E s \in Senders, r \in Receivers : ReplyReceived(r, s)
  BY <1>14 DEF ReplyReceived
<1>15. CASE CrashAndResume
  BY <1>15 DEF CrashAndResume, ResumedAt, ResumedAs, StartsOver
<1>16. CASE UNCHANGED vars
  BY <1>16 DEF vars, dbVars, netVars
<1> QED
  BY <1>1, <1>2, <1>3, <1>4, <1>5, <1>6, <1>7, <1>8, <1>9, <1>10, <1>11, <1>12, <1>13, <1>14, <1>15, <1>16 DEF Next, TaskStep, SenderStep, CallbackStep, ReceiverStep

LEMMA PlacedInductive == Spec => [](IInv /\ Placed)
<1>1. Init => IInv /\ Placed
  BY InitHolds, Disjoint DEF Init, Placed, SenderPlace, ReceiverPlace, Rejected
<1>2. IInv /\ Placed /\ [Next]_vars => IInv' /\ Placed'
  <2> SUFFICES ASSUME IInv, Placed, [Next]_vars PROVE Placed'
    BY StepHolds
  <2>1. Values /\ Nets /\ Untaken /\ Witnessed /\ Witnessed' /\ Beginning
    BY TypeParts, StepHolds DEF IInv
  <2>2. ASSUME NEW s \in Senders PROVE SenderPlace(s)' /\ Rejected(s)'
    <3>1. Witness(s) => Witness(s)'
      BY <2>1, WitnessStays
    <3> QED BY <2>1, <3>1, SenderMoves, Rejecting DEF Placed
  <2>3. ASSUME NEW r \in Receivers PROVE ReceiverPlace(r)'
    BY <2>1, ReceiverMoves DEF Placed
  <2> QED BY <2>2, <2>3 DEF Placed
<1> QED
  BY <1>1, <1>2, PTL DEF Spec

\* Who waits listens, and who has come to its end has an outcome or is about to get one.
THEOREM EverybodyIsServed == Spec => []NobodyIsLeftWaiting
<1>1. IInv /\ Placed => NobodyIsLeftWaiting
  BY TypeParts, Disjoint DEF IInv, Values, Placed, SenderPlace, ReceiverPlace, NobodyIsLeftWaiting, Tasks
<1> QED
  BY <1>1, PlacedInductive, PTL

\* The outcome is what the row says, but for a late reply and the loop of an interrupted
\* sender.
THEOREM OutcomeIsStored == Spec => []SettledAsStored
<1>1. IInv /\ Placed => SettledAsStored
  <2> SUFFICES ASSUME IInv, Placed, NEW t \in Tasks PROVE SettledAsStored!(t)
    BY DEF SettledAsStored
  <2>1. CASE t \in Senders
    BY <2>1 DEF Placed, SenderPlace, Rejected, Witness
  <2>2. CASE t \in Receivers
    BY <2>2 DEF Placed, ReceiverPlace
  <2> QED BY <2>1, <2>2 DEF Tasks
<1> QED
  BY <1>1, PlacedInductive, PTL

\* A closed row is rewritten by an interruption or by a late reply, by nothing else.
THEOREM ClosedRowIsKept == Spec => ClosedRowStays
<1>1. ASSUME IInv, Placed, [Next]_vars, NEW x \in Tasks, row[x] \in {"finished", "error"}, row'[x] # row[x]
      PROVE  settled'[x] = "interrupted" \/ (x \in Senders /\ row[x] = "error" /\ row'[x] = "resumed")
  <2>1. Values /\ (x \in Senders => SenderPlace(x)) /\ (x \in Receivers => ReceiverPlace(x))
                /\ x \in Senders \cup Receivers
    BY <1>1, TypeParts DEF IInv, Placed, Tasks
  <2> USE <1>1, <2>1, Disjoint DEF Values, SenderPlace, ReceiverPlace
  <2>2. CASE \E t \in Tasks : Begin(t)
    BY <2>2 DEF Begin, netVars
  <2>3. CASE \E t \in Tasks : ContinueAfterResume(t)
    BY <2>3 DEF ContinueAfterResume, netVars
  <2>4. CASE \E t \in Tasks : Exited(t)
    BY <2>4 DEF Exited, Settle, dbVars, netVars
  <2>5. CASE \E t \in Tasks : Interrupted(t)
    BY <2>5 DEF Interrupted, Settle
  <2>6. CASE \E s \in Senders : Suspend(s)
    BY <2>6 DEF Suspend, netVars
  <2>7. CASE \E s \in Senders : ExecuteSend(s)
    BY <2>7 DEF ExecuteSend, Send, dbVars
  <2>8. CASE \E s \in Senders : Retry(s)
    BY <2>8 DEF Retry, Send, GivesUp, UsedUp, Unanswered
  <2>9. CASE \E s \in Senders : Failed(s)
    BY <2>9 DEF Failed, Settle, dbVars, netVars
  <2>10. CASE \E s \in Senders : ReplyPersisted(s)
    BY <2>10 DEF ReplyPersisted, netVars
  <2>11. CASE \E s \in Senders : ReplyDone(s)
    BY <2>11 DEF ReplyDone, Settle, dbVars, netVars
  <2>12. CASE \E r \in Receivers : ExecuteReceive(r)
    BY <2>12 DEF ExecuteReceive
  <2>13. CASE \E r \in Receivers : Reply(r)
    BY <2>13 DEF Reply, RepliesOf
  <2>14. CASE \E s \in Senders, r \in Receivers : MessageReceived(s, r)
    BY <2>14 DEF MessageReceived
  <2>15. CASE \E s \in Senders, r \in Receivers : ReplyReceived(r, s)
    BY <2>15 DEF ReplyReceived
  <2>16. CASE CrashAndResume
    BY <2>16 DEF CrashAndResume, ResumedAt, ResumedAs, StartsOver
  <2>17. CASE UNCHANGED vars
    BY <2>17 DEF vars, dbVars, netVars
  <2> QED
    BY <2>2, <2>3, <2>4, <2>5, <2>6, <2>7, <2>8, <2>9, <2>10, <2>11, <2>12, <2>13, <2>14, <2>15, <2>16, <2>17 DEF Next, TaskStep, SenderStep, CallbackStep, ReceiverStep
<1>2. IInv /\ Placed /\ [Next]_vars =>
        [\A t \in Tasks : row[t] \in {"finished", "error"} /\ row'[t] # row[t] =>
           settled'[t] = "interrupted" \/ (t \in Senders /\ row[t] = "error" /\ row'[t] = "resumed")]_vars
  BY <1>1
<1> QED
  BY <1>2, PlacedInductive, PTL DEF Spec, ClosedRowStays

=============================================================================
