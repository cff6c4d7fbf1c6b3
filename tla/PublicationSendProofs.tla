----------------------- MODULE PublicationSendProofs ------------------------
(***************************************************************************)
(* Proofs about PublicationSend, for any number of targets, runs and       *)
(* runner restarts.  The inductive invariant says who owns what: a browser *)
(* has the gate, a run in charge owns its attempt or withdrawal, an effect *)
(* on the platform is its owner's, and every word that reached the API or  *)
(* the ledger, except unknown, is true and final.                          *)
(***************************************************************************)
EXTENDS PublicationSend, TLAPS

Begun(r) == pc[r] \notin {"idle", "planned", "reserved", "open"}
InCharge(r) == pc[r] \in {"claimed", "waiting", "closing", "finishing"}
Alive(r) == exec[r] \in {"inflight", "running", "asking", "granted", "sending", "acted"}
Owns(r) == IF kind[r] = "publish" THEN attempt[target[r]] = r ELSE cleaner[target[r]] = r

(* A browser holds the account's gate.                                     *)
Gates == \A r \in Runs : session[r] # "none" => holder = r /\ bound

(* Whoever has reserved the account is past planning to.                   *)
Started(r) == pc[r] \notin {"idle", "planned"}
Reserved == holder # None => Started(holder)

Owners == \A r \in Runs :
    /\ pc[r] # "idle" => target[r] \in Targets
    /\ ~Begun(r) => exec[r] = "none" /\ reply[r] = None /\ r \notin asked
    /\ \A t \in Targets : attempt[t] = r => Begun(r) /\ kind[r] = "publish" /\ target[r] = t
    /\ \A t \in Targets : cleaner[t] = r => Begun(r) /\ kind[r] = "withdraw" /\ target[r] = t
    /\ pc[r] = "claimed" => exec[r] = "none"
    /\ exec[r] \in {"none", "inflight"} => reply[r] = None
    /\ InCharge(r) \/ exec[r] # "none" => Owns(r)
    /\ InCharge(r) /\ kind[r] = "publish" => outcome[target[r]] = None

(* What happened on the platform was done by the owner, once.              *)
Effects == \A r \in Runs :
    /\ \A t \in Targets : r \in posts[t] =>
         /\ kind[r] = "publish" /\ target[r] = t /\ attempt[t] = r
         /\ exec[r] \in {"acted", "done"}
    /\ \A t \in Targets : r \in deletes[t] =>
         /\ kind[r] = "withdraw" /\ target[r] = t /\ cleaner[t] = r
         /\ exec[r] \in {"acted", "done"}
    /\ exec[r] = "acted" =>
         r \in IF kind[r] = "publish" THEN posts[target[r]] ELSE deletes[target[r]]

Permits == \A r \in Runs :
    /\ r \in asked \/ exec[r] \in {"asking", "granted", "sending"} =>
         IsRich(r) /\ exec[r] # "none"
    /\ exec[r] \in {"granted", "sending"} => ticket[target[r]] = "authorized"

(* A word other than unknown is true, and said of an execution that ended. *)
IsTrue(r, v) == v # "unknown" =>
    /\ ~Alive(r)
    /\ v \in {"completed", "readback", "created"} =>
         r \in IF kind[r] = "publish" THEN posts[target[r]] ELSE deletes[target[r]]
    /\ v \in {"login_required", "unsupported"} => r \notin posts[target[r]]

Words == \A r \in Runs :
    /\ reply[r] # None => IsTrue(r, reply[r])
    /\ pc[r] \in {"closing", "finishing"} => IsTrue(r, result[r])

Records == \A t \in Targets :
    /\ attempt[t] = None => posts[t] = {}
    /\ outcome[t] # None => attempt[t] # None
    /\ outcome[t] \in Outcomes \ {"unknown"} => ~Alive(attempt[t])
    /\ outcome[t] = "verified" => posts[t] # {}
    /\ outcome[t] \in {"login_required", "unsupported"} => posts[t] = {}
    /\ t \in proof => posts[t] # {}

Cleanups == \A t \in Targets :
    /\ cleanup[t] # "none" => t \in Withdrawing /\ attempt[t] # None
    /\ cleanup[t] \notin {"none", "awaiting"} => posts[t] # {}
    /\ cleaner[t] # None => cleanup[t] \in {"claimed", "unknown", "withdrawn"}
    /\ cleanup[t] = "claimed" => cleaner[t] # None
    /\ cleanup[t] = "withdrawn" => deletes[t] # {}

Sends == TypeOK /\ Gates /\ Reserved /\ Owners /\ Effects /\ Permits /\ Words /\ Records /\ Cleanups

-----------------------------------------------------------------------------
(* Types: the code's assignments stay within them. *)
LEMMA TypeOKKept == Sends /\ [Next]_vars => TypeOK'
<1> SUFFICES ASSUME Sends, [Next]_vars PROVE TypeOK'
  OBVIOUS
<1> USE DEF Sends
<1>1. ASSUME NEW r \in Runs, Plan(r) PROVE TypeOK'
  BY <1>1 DEF Plan, Goto, gate, ledger, permission, platform, runner, withdrawal, Unattempted,
     TypeOK, Outcomes, Replies
<1>2. ASSUME NEW r \in Runs, Reserve(r) PROVE TypeOK'
  BY <1>2 DEF Reserve, Goto, ledger, permission, platform, runner, withdrawal, Free, TypeOK,
     Outcomes, Replies
<1>3. ASSUME NEW r \in Runs, Open(r) PROVE TypeOK'
  BY <1>3 DEF Open, Goto, ledger, permission, platform, withdrawal, Holds, Unattempted, TypeOK,
     Outcomes, Replies
<1>4. ASSUME NEW r \in Runs, GiveUp(r) PROVE TypeOK'
  BY <1>4 DEF GiveUp, Goto, Release, gate, ledger, permission, platform, runner, withdrawal, TypeOK,
     Outcomes, Replies
<1>5. ASSUME NEW r \in Runs, Abandon(r) PROVE TypeOK'
  <2>1. CASE Dispose(r)
    BY <1>5, <2>1 DEF Abandon, Goto, Dispose, Release, gate, ledger, permission, withdrawal,
       platform, Busy, Ended, Executing, TypeOK
  <2>2. CASE UNCHANGED <<gate, runner>>
    BY <1>5, <2>2 DEF Abandon, Goto, gate, ledger, permission, withdrawal, runner, platform, TypeOK
  <2> QED
    BY <1>5, <2>1, <2>2 DEF Abandon, Close
<1>6. ASSUME NEW r \in Runs, Claim(r) PROVE TypeOK'
  BY <1>6 DEF Claim, Goto, gate, permission, platform, runner, Claimable, Holds, Unattempted, TypeOK,
     Outcomes, Replies
<1>7. ASSUME NEW r \in Runs, ClaimWithdrawal(r) PROVE TypeOK'
  BY <1>7 DEF ClaimWithdrawal, Goto, gate, ledger, permission, platform, runner, Holds, TypeOK,
     Outcomes, Replies
<1>8. ASSUME NEW r \in Runs, Dispatch(r) PROVE TypeOK'
  BY <1>8 DEF Dispatch, Goto, gate, ledger, platform, withdrawal, IsRich, Registrable, TypeOK,
     Outcomes, Replies
<1>9. ASSUME NEW r \in Runs, FailBeforeSending(r) PROVE TypeOK'
  <2>1. result' \in [Runs -> Replies]
    BY <1>9 DEF FailBeforeSending, Unsent, Replies, TypeOK
  <2>2. ticket' \in [Targets -> {"none", "registered", "authorized"}]
    BY <1>9 DEF FailBeforeSending, TypeOK
  <2> QED
    BY <1>9, <2>1, <2>2 DEF FailBeforeSending, Goto, gate, ledger, withdrawal, runner, platform,
       TypeOK
<1>10. ASSUME NEW r \in Runs, Accept(r) PROVE TypeOK'
  BY <1>10 DEF Accept, gate, ledger, permission, platform, run, withdrawal, TypeOK, Outcomes, Replies
<1>11. ASSUME NEW r \in Runs, Refuse(r) PROVE TypeOK'
  BY <1>11 DEF Refuse, gate, ledger, permission, platform, run, withdrawal, Unsent, TypeOK, Outcomes,
     Replies
<1>12. ASSUME NEW r \in Runs, Ask(r) PROVE TypeOK'
  BY <1>12 DEF Ask, gate, ledger, permission, platform, run, withdrawal, IsRich, TypeOK, Outcomes,
     Replies
<1>13. ASSUME NEW r \in Runs, Authorize(r) PROVE TypeOK'
  BY <1>13 DEF Authorize, gate, ledger, platform, run, withdrawal, MaySend, TypeOK, Outcomes, Replies
<1>14. ASSUME NEW r \in Runs, Deny(r) PROVE TypeOK'
  BY <1>14 DEF Deny, gate, ledger, permission, platform, run, withdrawal, TypeOK, Outcomes, Replies
<1>15. ASSUME NEW r \in Runs, Upload(r) PROVE TypeOK'
  BY <1>15 DEF Upload, gate, ledger, permission, platform, run, withdrawal, TypeOK, Outcomes, Replies
<1>16. ASSUME NEW r \in Runs, Act(r) PROVE TypeOK'
  <2>1. posts' \in [Targets -> SUBSET Runs] /\ deletes' \in [Targets -> SUBSET Runs]
    BY <1>16 DEF Act, Submits, TypeOK
  <2>2. exec' \in [Runs -> {"none", "inflight", "running", "asking", "granted", "sending",
                           "acted", "done"}]
    BY <1>16 DEF Act, Submits, TypeOK
  <2> QED
    BY <1>16, <2>1, <2>2 DEF Act, Submits, gate, ledger, permission, withdrawal, run, TypeOK
<1>17. ASSUME NEW r \in Runs, Answer(r) PROVE TypeOK'
  BY <1>17 DEF Answer, gate, ledger, permission, platform, run, withdrawal, Busy, Executing, IsRich,
     Reports, Unsent, TypeOK, Outcomes, Replies
<1>18. ASSUME NEW r \in Runs, RunOver(r) PROVE TypeOK'
  BY <1>18 DEF RunOver, gate, ledger, permission, platform, run, withdrawal, Busy, Executing, TypeOK,
     Outcomes, Replies
<1>19. ASSUME NEW r \in Runs, RunnerCloses(r) PROVE TypeOK'
  BY <1>19 DEF RunnerCloses, gate, ledger, permission, platform, run, withdrawal, Busy, Ended,
     Executing, TypeOK, Outcomes, Replies
<1>20. ASSUME NEW r \in Runs, Receive(r) PROVE TypeOK'
  BY <1>20 DEF Receive, Goto, gate, ledger, permission, platform, runner, withdrawal, TypeOK,
     Outcomes, Replies
<1>21. ASSUME NEW r \in Runs, TimeOut(r) PROVE TypeOK'
  BY <1>21 DEF TimeOut, Goto, gate, ledger, permission, platform, runner, withdrawal, TimesOut,
     WhenLost, TypeOK, Outcomes, Replies
<1>22. ASSUME NEW r \in Runs, CloseBrowser(r) PROVE TypeOK'
  <2>1. CASE Dispose(r)
    BY <1>22, <2>1 DEF CloseBrowser, Goto, Dispose, Release, gate, ledger, permission, withdrawal,
       platform, Busy, Ended, Executing, TypeOK
  <2>2. CASE UNCHANGED <<gate, runner>>
    BY <1>22, <2>2 DEF CloseBrowser, Goto, gate, ledger, permission, withdrawal, runner, platform, TypeOK
  <2> QED
    BY <1>22, <2>1, <2>2 DEF CloseBrowser, Close
<1>23. ASSUME NEW r \in Runs, Finish(r) PROVE TypeOK'
  <2>1. Status(result[r]) \in Outcomes
    BY DEF Status, Outcomes, Replies, TypeOK
  <2>2. outcome' \in [Targets -> Outcomes \cup {None}]
    BY <1>23, <2>1 DEF Finish, TypeOK
  <2>3. proof' \subseteq Targets
    BY <1>23 DEF Finish, Owners, InCharge, TypeOK
  <2>4. intent' \in [Targets -> {"unverified", "unknown", "verified"}]
    BY <1>23 DEF Finish, TypeOK
  <2>5. command' \in [Targets -> {"pending", "claimed", "delivered"}]
    BY <1>23 DEF Finish, TypeOK
  <2> QED
    BY <1>23, <2>2, <2>3, <2>4, <2>5
       DEF Finish, Goto, gate, permission, withdrawal, runner, platform, TypeOK
<1>24. ASSUME NEW r \in Runs, FinishWithdrawal(r) PROVE TypeOK'
  BY <1>24 DEF FinishWithdrawal, Unsettled, Goto, gate, ledger, permission, platform, runner, TypeOK, Outcomes,
     Replies
<1>25. ASSUME NEW r \in Runs, Crash(r) PROVE TypeOK'
  BY <1>25 DEF Crash, Goto, gate, ledger, permission, platform, runner, withdrawal, TypeOK, Outcomes,
     Replies
<1>26. ASSUME NEW r \in Runs, Reconcile(r) PROVE TypeOK'
  BY <1>26 DEF Reconcile, Dispose, Release, gate, ledger, permission, platform, run, withdrawal, Busy,
     Ended, Executing, TypeOK, Outcomes, Replies
<1>27. ASSUME NEW t \in Targets, Resolve(t) PROVE TypeOK'
  BY <1>27 DEF Resolve, gate, ledger, permission, platform, run, runner, TypeOK, Outcomes, Replies
<1>28. ASSUME NEW t \in Targets, Expire(t) PROVE TypeOK'
  BY <1>28 DEF Expire, gate, ledger, permission, platform, run, runner, GivesUp, TypeOK, Outcomes,
     Replies
<1>29. ASSUME NEW t \in Targets, Deadline(t) PROVE TypeOK'
  BY <1>29 DEF Deadline, gate, ledger, platform, run, runner, withdrawal, TypeOK, Outcomes, Replies
<1>30. ASSUME NEW t \in Targets, Revoke(t) PROVE TypeOK'
  BY <1>30 DEF Revoke, gate, ledger, platform, run, runner, withdrawal, TypeOK, Outcomes, Replies
<1>31. ASSUME RunnerRestart PROVE TypeOK'
  <2>1. session' \in [Runs -> {"none", "live", "closed", "stranded"}]
    BY <1>31 DEF RunnerRestart, TypeOK
  <2>2. exec' \in [Runs -> {"none", "inflight", "running", "asking", "granted", "sending",
                           "acted", "done"}]
    BY <1>31 DEF RunnerRestart, Ended, Executing, TypeOK
  <2>3. restarts' \in 0..MaxRestarts
    BY <1>31, BoundsAssumption DEF RunnerRestart, TypeOK
  <2> QED
    BY <1>31, <2>1, <2>2, <2>3
       DEF RunnerRestart, gate, ledger, permission, withdrawal, run, platform, TypeOK
<1>32. ASSUME Lapse PROVE TypeOK'
  BY <1>32 DEF Lapse, ledger, permission, platform, run, runner, withdrawal, TypeOK, Outcomes, Replies
<1>33. ASSUME PauseOrResume PROVE TypeOK'
  BY <1>33 DEF PauseOrResume, gate, ledger, platform, run, runner, withdrawal, TypeOK, Outcomes,
     Replies
<1>34. CASE UNCHANGED vars
  BY <1>34 DEF vars, gate, ledger, permission, withdrawal, run, runner, platform, TypeOK, Outcomes, Replies
<1> QED
  BY <1>1, <1>2, <1>3, <1>4, <1>5, <1>6, <1>7, <1>8, <1>9, <1>10, <1>11, <1>12, <1>13,
     <1>14, <1>15, <1>16, <1>17, <1>18, <1>19, <1>20, <1>21, <1>22, <1>23, <1>24, <1>25,
     <1>26, <1>27, <1>28, <1>29, <1>30, <1>31, <1>32, <1>33, <1>34 DEF Next

(* The gate: a reservation is taken only where no browser is, and a disposal
   gives back the gate of its own browser only. *)
LEMMA GatesKept == Sends /\ [Next]_vars => Gates'
<1> SUFFICES ASSUME Sends, [Next]_vars PROVE Gates'
  OBVIOUS
<1> USE DEF Sends
<1>1. ASSUME NEW r \in Runs, Reserve(r) PROVE Gates'
  BY <1>1, NoneAssumption DEF Reserve, runner, Free, Gates, TypeOK
<1>2. ASSUME NEW r \in Runs, Open(r) PROVE Gates'
  BY <1>2 DEF Open, Holds, Unattempted, Gates, TypeOK
<1>3. ASSUME NEW r \in Runs, GiveUp(r) PROVE Gates'
  BY <1>3 DEF GiveUp, Release, gate, runner, Gates, TypeOK
<1>4. ASSUME NEW r \in Runs, Abandon(r) PROVE Gates'
  BY <1>4 DEF Abandon, Close, Dispose, Release, gate, runner, Busy, Ended, Executing, Gates, TypeOK
<1>5. ASSUME NEW r \in Runs, RunnerCloses(r) PROVE Gates'
  BY <1>5 DEF RunnerCloses, gate, Busy, Ended, Executing, Gates, TypeOK
<1>6. ASSUME NEW r \in Runs, CloseBrowser(r) PROVE Gates'
  BY <1>6 DEF CloseBrowser, Close, Dispose, Release, gate, runner, Busy, Ended, Executing, Gates,
     TypeOK
<1>7. ASSUME NEW r \in Runs, Reconcile(r) PROVE Gates'
  BY <1>7 DEF Reconcile, Dispose, Release, gate, Busy, Ended, Executing, Gates, TypeOK
<1>8. ASSUME RunnerRestart PROVE Gates'
  BY <1>8 DEF RunnerRestart, gate, Ended, Executing, Gates, TypeOK
<1>9. ASSUME NEW r \in Runs, Plan(r) \/ Claim(r) \/ ClaimWithdrawal(r) \/ Dispatch(r) \/
              FailBeforeSending(r) \/ Accept(r) \/ Refuse(r) \/ Ask(r) \/ Authorize(r) \/
              Deny(r) \/ Upload(r) \/ Act(r) \/ Answer(r) \/ RunOver(r) \/ Receive(r) \/
              TimeOut(r) \/ Finish(r) \/ FinishWithdrawal(r) \/ Crash(r)
       PROVE  Gates'
  <2>1. UNCHANGED <<holder, bound, session>>
    BY <1>9 DEF Accept, Act, Submits, Answer, Ask, Authorize, Claim, ClaimWithdrawal, Crash, Deny, Dispatch,
       FailBeforeSending, Finish, FinishWithdrawal, Plan, Receive, Refuse, RunOver, TimeOut,
       Upload, gate, runner
  <2> QED
    BY <2>1 DEF Gates
<1>10. ASSUME NEW t \in Targets, Resolve(t) \/ Expire(t) \/ Deadline(t) \/ Revoke(t)
       PROVE  Gates'
  <2>1. UNCHANGED <<holder, bound, session>>
    BY <1>10 DEF Deadline, Expire, Resolve, Revoke, gate, runner
  <2> QED
    BY <2>1 DEF Gates
<1>11. ASSUME Lapse \/ PauseOrResume
       PROVE  Gates'
  <2>1. UNCHANGED <<holder, bound, session>>
    BY <1>11 DEF Lapse, PauseOrResume, gate, runner
  <2> QED
    BY <2>1 DEF Gates
<1>12. CASE UNCHANGED vars
  BY <1>12 DEF vars, gate, runner, Gates
<1> QED
  BY <1>1, <1>2, <1>3, <1>4, <1>5, <1>6, <1>7, <1>8, <1>9, <1>10, <1>11, <1>12 DEF Next

(* No run goes back to planning.                                           *)
LEMMA RunsGoOn == Sends /\ [Next]_vars => \A r \in Runs : Started(r) => Started(r)'
<1> SUFFICES ASSUME Sends, [Next]_vars, NEW q \in Runs, Started(q) PROVE Started(q)'
  OBVIOUS
<1> USE DEF Sends, TypeOK, Started
<1>1. ASSUME NEW r \in Runs, Plan(r) PROVE Started(q)'
  BY <1>1 DEF Plan, Goto
<1>2. ASSUME NEW r \in Runs, NEW place \in {"reserved", "open", "claimed", "waiting", "closing",
                                           "finishing", "done", "dead"}, Goto(r, place)
      PROVE  Started(q)'
  BY <1>2 DEF Goto
<1>3. ASSUME NEW r \in Runs, Reserve(r) \/ Open(r) \/ GiveUp(r) \/ Abandon(r) \/ Claim(r) \/
              ClaimWithdrawal(r) \/ Dispatch(r) \/ FailBeforeSending(r) \/ Receive(r) \/
              TimeOut(r) \/ CloseBrowser(r) \/ Finish(r) \/ FinishWithdrawal(r) \/ Crash(r)
      PROVE  Started(q)'
  BY <1>2, <1>3 DEF Abandon, Claim, ClaimWithdrawal, CloseBrowser, Crash, Dispatch,
     FailBeforeSending, Finish, FinishWithdrawal, GiveUp, Open, Receive, Reserve, TimeOut
<1>4. ASSUME NEW r \in Runs, Accept(r) \/ Refuse(r) \/ Ask(r) \/ Authorize(r) \/ Deny(r) \/
              Upload(r) \/ Act(r) \/ Answer(r) \/ RunOver(r) \/ RunnerCloses(r) \/ Reconcile(r)
      PROVE  pc' = pc
  BY <1>4 DEF Accept, Act, Submits, Answer, Ask, Authorize, Deny, Reconcile, Refuse, RunOver,
     RunnerCloses, Upload, run
<1>5. ASSUME NEW t \in Targets, Resolve(t) \/ Expire(t) \/ Deadline(t) \/ Revoke(t)
      PROVE  pc' = pc
  BY <1>5 DEF Deadline, Expire, Resolve, Revoke, run
<1>6. ASSUME RunnerRestart \/ Lapse \/ PauseOrResume
      PROVE  pc' = pc
  BY <1>6 DEF Lapse, PauseOrResume, RunnerRestart, run
<1>7. CASE UNCHANGED vars
  BY <1>7 DEF vars, run
<1> QED
  BY <1>1, <1>3, <1>4, <1>5, <1>6, <1>7 DEF Next

LEMMA ReservedKept == Sends /\ [Next]_vars => Reserved'
<1> SUFFICES ASSUME Sends, [Next]_vars PROVE Reserved'
  OBVIOUS
<1> USE NoneAssumption DEF Sends, TypeOK, Reserved
<1>1. ASSUME holder' \in {holder, None} PROVE Reserved'
  BY <1>1, RunsGoOn
<1>2. ASSUME NEW r \in Runs, Reserve(r) PROVE Reserved'
  BY <1>2 DEF Reserve, Goto, Started
<1>3. ASSUME NEW r \in Runs, GiveUp(r) \/ Abandon(r) \/ CloseBrowser(r) \/ Reconcile(r)
      PROVE  holder' \in {holder, None}
  BY <1>3 DEF GiveUp, Abandon, CloseBrowser, Reconcile, Close, Dispose, Release, gate
<1>4. ASSUME NEW r \in Runs, Plan(r) \/ Open(r) \/ Claim(r) \/ ClaimWithdrawal(r) \/ Dispatch(r) \/
              FailBeforeSending(r) \/ Accept(r) \/ Refuse(r) \/ Ask(r) \/ Authorize(r) \/
              Deny(r) \/ Upload(r) \/ Act(r) \/ Answer(r) \/ RunOver(r) \/ RunnerCloses(r) \/
              Receive(r) \/ TimeOut(r) \/ Finish(r) \/ FinishWithdrawal(r) \/ Crash(r)
      PROVE  holder' = holder
  BY <1>4 DEF Accept, Act, Submits, Answer, Ask, Authorize, Claim, ClaimWithdrawal, Crash, Deny, Dispatch,
     FailBeforeSending, Finish, FinishWithdrawal, Open, Plan, Receive, Refuse, RunOver,
     RunnerCloses, TimeOut, Upload, gate
<1>5. ASSUME NEW t \in Targets, Resolve(t) \/ Expire(t) \/ Deadline(t) \/ Revoke(t)
      PROVE  holder' = holder
  BY <1>5 DEF Deadline, Expire, Resolve, Revoke, gate
<1>6. ASSUME RunnerRestart \/ Lapse \/ PauseOrResume
      PROVE  holder' = holder
  BY <1>6 DEF Lapse, PauseOrResume, RunnerRestart, gate
<1>7. CASE UNCHANGED vars
  BY <1>1, <1>7 DEF vars, gate
<1> QED
  BY <1>1, <1>2, <1>3, <1>4, <1>5, <1>6, <1>7 DEF Next

(* Ownership: claims are made by runs that own nothing, of what nobody owns. *)
LEMMA OwnersKept == Sends /\ [Next]_vars => Owners'
<1> SUFFICES ASSUME Sends, [Next]_vars PROVE Owners'
  OBVIOUS
<1> USE DEF Sends
<1>1. ASSUME NEW r \in Runs, Plan(r) PROVE Owners'
  BY <1>1 DEF Plan, Goto, ledger, runner, withdrawal, Unattempted, Owners, Begun, InCharge, Owns,
     TypeOK
<1>2. ASSUME NEW r \in Runs, Reserve(r) PROVE Owners'
  BY <1>2 DEF Reserve, Goto, ledger, runner, withdrawal, Free, Owners, Begun, InCharge, Owns, TypeOK
<1>3. ASSUME NEW r \in Runs, Open(r) PROVE Owners'
  BY <1>3 DEF Open, Goto, ledger, withdrawal, Holds, Unattempted, Owners, Begun, InCharge, Owns,
     TypeOK
<1>4. ASSUME NEW r \in Runs, GiveUp(r) PROVE Owners'
  BY <1>4 DEF GiveUp, Goto, Release, ledger, runner, withdrawal, Owners, Begun, InCharge, Owns,
     TypeOK
<1>5. ASSUME NEW r \in Runs, Abandon(r) PROVE Owners'
  BY <1>5 DEF Abandon, Close, Dispose, Goto, Release, ledger, runner, withdrawal, Busy, Ended,
     Executing, Owners, Begun, InCharge, Owns, TypeOK
<1>6. ASSUME NEW r \in Runs, Claim(r) PROVE Owners'
  <2> DEFINE t == target[r]
  <2>1. t \in Targets /\ attempt[t] = None /\ outcome[t] = None /\ posts[t] = {}
    BY <1>6 DEF Claim, Claimable, Unattempted, Owners, Records
  <2>2. /\ pc[r] = "open" /\ kind[r] = "publish"
        /\ attempt' = [attempt EXCEPT ![t] = r] /\ pc' = [pc EXCEPT ![r] = "claimed"]
        /\ UNCHANGED <<outcome, cleaner, kind, target, runner>>
    BY <1>6 DEF Claim, Goto
  <2> HIDE DEF t
  <2> QED
    BY <2>1, <2>2, NoneAssumption DEF t, Owners, Begun, InCharge, Owns, runner, TypeOK
<1>7. ASSUME NEW r \in Runs, ClaimWithdrawal(r) PROVE Owners'
  <2> DEFINE t == target[r]
  <2>1. t \in Targets /\ cleanup[t] = "ready" /\ cleaner[t] = None
    BY <1>7 DEF ClaimWithdrawal, Owners, Cleanups
  <2>2. /\ pc[r] = "open" /\ kind[r] = "withdraw"
        /\ cleaner' = [cleaner EXCEPT ![t] = r] /\ pc' = [pc EXCEPT ![r] = "claimed"]
        /\ UNCHANGED <<ledger, kind, target, runner>>
    BY <1>7 DEF ClaimWithdrawal, Goto
  <2> HIDE DEF t
  <2> QED
    BY <2>1, <2>2, NoneAssumption DEF t, Owners, Begun, InCharge, Owns, ledger, runner, TypeOK
<1>8. ASSUME NEW r \in Runs, Dispatch(r) PROVE Owners'
  BY <1>8 DEF Dispatch, Goto, ledger, withdrawal, IsRich, Registrable, Owners, Begun, InCharge, Owns,
     TypeOK
<1>9. ASSUME NEW r \in Runs, FailBeforeSending(r) PROVE Owners'
  BY <1>9 DEF FailBeforeSending, Goto, ledger, runner, withdrawal, IsRich, Unsent, Owners, Begun,
     InCharge, Owns, TypeOK
<1>10. ASSUME NEW r \in Runs, Accept(r) PROVE Owners'
  BY <1>10 DEF Accept, ledger, run, withdrawal, Owners, Begun, InCharge, Owns, TypeOK
<1>11. ASSUME NEW r \in Runs, Refuse(r) PROVE Owners'
  BY <1>11 DEF Refuse, ledger, run, withdrawal, Unsent, Owners, Begun, InCharge, Owns, TypeOK
<1>12. ASSUME NEW r \in Runs, Ask(r) PROVE Owners'
  BY <1>12 DEF Ask, ledger, run, withdrawal, IsRich, Owners, Begun, InCharge, Owns, TypeOK
<1>13. ASSUME NEW r \in Runs, Authorize(r) PROVE Owners'
  BY <1>13 DEF Authorize, ledger, run, withdrawal, MaySend, Owners, Begun, InCharge, Owns, TypeOK
<1>14. ASSUME NEW r \in Runs, Deny(r) PROVE Owners'
  BY <1>14 DEF Deny, ledger, run, withdrawal, Owners, Begun, InCharge, Owns, TypeOK
<1>15. ASSUME NEW r \in Runs, Upload(r) PROVE Owners'
  BY <1>15 DEF Upload, ledger, run, withdrawal, Owners, Begun, InCharge, Owns, TypeOK
<1>16. ASSUME NEW r \in Runs, Act(r) PROVE Owners'
  BY <1>16 DEF Act, Submits, ledger, run, withdrawal, IsRich, Owners, Begun, InCharge, Owns, TypeOK
<1>17. ASSUME NEW r \in Runs, Answer(r) PROVE Owners'
  BY <1>17 DEF Answer, ledger, run, withdrawal, Busy, Executing, IsRich, Reports, Unsent, Owners,
     Begun, InCharge, Owns, TypeOK
<1>18. ASSUME NEW r \in Runs, RunOver(r) PROVE Owners'
  BY <1>18 DEF RunOver, ledger, run, withdrawal, Busy, Executing, Owners, Begun, InCharge, Owns,
     TypeOK
<1>19. ASSUME NEW r \in Runs, RunnerCloses(r) PROVE Owners'
  BY <1>19 DEF RunnerCloses, ledger, run, withdrawal, Busy, Ended, Executing, Owners, Begun, InCharge,
     Owns, TypeOK
<1>20. ASSUME NEW r \in Runs, Receive(r) PROVE Owners'
  BY <1>20 DEF Receive, Goto, ledger, runner, withdrawal, Owners, Begun, InCharge, Owns, TypeOK
<1>21. ASSUME NEW r \in Runs, TimeOut(r) PROVE Owners'
  BY <1>21 DEF TimeOut, Goto, ledger, runner, withdrawal, TimesOut, WhenLost, Owners, Begun, InCharge,
     Owns, TypeOK
<1>22. ASSUME NEW r \in Runs, CloseBrowser(r) PROVE Owners'
  BY <1>22 DEF CloseBrowser, Close, Dispose, Goto, Release, ledger, runner, withdrawal, Busy, Ended,
     Executing, Owners, Begun, InCharge, Owns, TypeOK
<1>23. ASSUME NEW r \in Runs, Finish(r) PROVE Owners'
  BY <1>23 DEF Finish, Goto, runner, withdrawal, CreationProof, Status, Owners, Begun, InCharge, Owns,
     TypeOK
<1>24. ASSUME NEW r \in Runs, FinishWithdrawal(r) PROVE Owners'
  BY <1>24 DEF FinishWithdrawal, Goto, ledger, runner, Owners, Begun, InCharge, Owns, TypeOK
<1>25. ASSUME NEW r \in Runs, Crash(r) PROVE Owners'
  BY <1>25 DEF Crash, Goto, ledger, runner, withdrawal, Owners, Begun, InCharge, Owns, TypeOK
<1>26. ASSUME NEW r \in Runs, Reconcile(r) PROVE Owners'
  BY <1>26 DEF Reconcile, Dispose, Release, ledger, run, withdrawal, Busy, Ended, Executing, Owners,
     Begun, InCharge, Owns, TypeOK
<1>27. ASSUME RunnerRestart PROVE Owners'
  BY <1>27 DEF RunnerRestart, ledger, run, withdrawal, Ended, Executing, Owners, Begun, InCharge,
     Owns, TypeOK
<1>28. ASSUME NEW t \in Targets, Resolve(t) \/ Expire(t) \/ Deadline(t) \/ Revoke(t)
       PROVE  Owners'
  <2>1. UNCHANGED <<pc, target, kind, exec, reply, asked, attempt, cleaner, outcome>>
    BY <1>28 DEF Deadline, Expire, Resolve, Revoke, ledger, run, runner, withdrawal
  <2> QED
    BY <2>1 DEF Owners, Begun, InCharge, Owns
<1>29. ASSUME Lapse \/ PauseOrResume
       PROVE  Owners'
  <2>1. UNCHANGED <<pc, target, kind, exec, reply, asked, attempt, cleaner, outcome>>
    BY <1>29 DEF Lapse, PauseOrResume, ledger, run, runner, withdrawal
  <2> QED
    BY <2>1 DEF Owners, Begun, InCharge, Owns
<1>30. CASE UNCHANGED vars
  BY <1>30 DEF vars, ledger, withdrawal, run, runner, Owners, Begun, InCharge, Owns
<1> QED
  BY <1>1, <1>2, <1>3, <1>4, <1>5, <1>6, <1>7, <1>8, <1>9, <1>10, <1>11, <1>12, <1>13,
     <1>14, <1>15, <1>16, <1>17, <1>18, <1>19, <1>20, <1>21, <1>22, <1>23, <1>24, <1>25,
     <1>26, <1>27, <1>28, <1>29, <1>30 DEF Next

(* Effects: only the owner's execution acts, and it acts once. *)
LEMMA EffectsKept == Sends /\ [Next]_vars => Effects'
<1> SUFFICES ASSUME Sends, [Next]_vars PROVE Effects'
  OBVIOUS
<1> USE DEF Sends
<1>1. ASSUME NEW r \in Runs, Plan(r) PROVE Effects'
  BY <1>1 DEF Plan, ledger, platform, runner, withdrawal, Unattempted, Effects, TypeOK, Owners,
     Begun, InCharge, Owns
<1>2. ASSUME NEW r \in Runs, Abandon(r) PROVE Effects'
  BY <1>2 DEF Abandon, Close, Dispose, Release, ledger, platform, runner, withdrawal, Busy, Ended,
     Executing, Effects, TypeOK, Owners, Begun, InCharge, Owns
<1>3. ASSUME NEW r \in Runs, Claim(r) PROVE Effects'
  <2> DEFINE t == target[r]
  <2>1. t \in Targets /\ attempt[t] = None /\ outcome[t] = None /\ posts[t] = {}
    BY <1>3 DEF Claim, Claimable, Unattempted, Owners, Records
  <2>2. attempt' = [attempt EXCEPT ![t] = r]
    BY <1>3 DEF Claim
  <2>3. UNCHANGED <<cleaner, kind, target, runner, platform>>
    BY <1>3 DEF Claim
  <2> HIDE DEF t
  <2> QED
    BY <2>1, <2>2, <2>3 DEF Effects, runner, platform, TypeOK
<1>4. ASSUME NEW r \in Runs, ClaimWithdrawal(r) PROVE Effects'
  <2> DEFINE t == target[r]
  <2>1. t \in Targets /\ cleanup[t] = "ready" /\ cleaner[t] = None
    BY <1>4 DEF ClaimWithdrawal, Owners, Cleanups
  <2>2. cleaner' = [cleaner EXCEPT ![t] = r]
    BY <1>4 DEF ClaimWithdrawal
  <2>3. UNCHANGED <<ledger, kind, target, runner, platform>>
    BY <1>4 DEF ClaimWithdrawal
  <2>4. \A p \in Runs : p \notin deletes[t]
    BY <2>1, NoneAssumption DEF Effects
  <2> HIDE DEF t
  <2> QED
    BY <2>1, <2>2, <2>3, <2>4 DEF Effects, ledger, runner, platform, TypeOK
<1>5. ASSUME NEW r \in Runs, Dispatch(r) PROVE Effects'
  BY <1>5 DEF Dispatch, ledger, platform, withdrawal, IsRich, Registrable, Effects, TypeOK, Owners,
     Begun, InCharge, Owns
<1>6. ASSUME NEW r \in Runs, Accept(r) PROVE Effects'
  BY <1>6 DEF Accept, ledger, platform, run, withdrawal, Effects, TypeOK, Owners, Begun, InCharge,
     Owns
<1>7. ASSUME NEW r \in Runs, Refuse(r) PROVE Effects'
  BY <1>7 DEF Refuse, ledger, platform, run, withdrawal, Unsent, Effects, TypeOK, Owners, Begun,
     InCharge, Owns
<1>8. ASSUME NEW r \in Runs, Ask(r) PROVE Effects'
  BY <1>8 DEF Ask, ledger, platform, run, withdrawal, IsRich, Effects, TypeOK, Owners, Begun,
     InCharge, Owns
<1>9. ASSUME NEW r \in Runs, Authorize(r) PROVE Effects'
  BY <1>9 DEF Authorize, ledger, platform, run, withdrawal, MaySend, Effects, TypeOK, Owners, Begun,
     InCharge, Owns
<1>10. ASSUME NEW r \in Runs, Upload(r) PROVE Effects'
  BY <1>10 DEF Upload, ledger, platform, run, withdrawal, Effects, TypeOK, Owners, Begun, InCharge,
     Owns
<1>11. ASSUME NEW r \in Runs, Act(r) PROVE Effects'
  <2> DEFINE t == target[r]
  <2>1. /\ t \in Targets /\ Owns(r)
        /\ exec' = [exec EXCEPT ![r] = "acted"]
        /\ UNCHANGED <<attempt, cleaner, kind, target>>
    BY <1>11 DEF Act, Submits, IsRich, Owners, Begun, ledger, withdrawal, run
  <2> HIDE DEF t
  <2>2. CASE kind[r] = "publish"
    <3>1. posts' = [posts EXCEPT ![t] = @ \cup {r}] /\ UNCHANGED deletes
      BY <1>11, <2>2 DEF Act, Submits, t
    <3> QED
      BY <2>1, <2>2, <3>1 DEF t, Owns, Effects, TypeOK
  <2>3. CASE kind[r] = "withdraw"
    <3>1. deletes' = [deletes EXCEPT ![t] = @ \cup {r}] /\ UNCHANGED posts
      BY <1>11, <2>3 DEF Act, Submits, t
    <3> QED
      BY <2>1, <2>3, <3>1 DEF t, Owns, Effects, TypeOK
  <2> QED
    BY <2>2, <2>3 DEF TypeOK
<1>12. ASSUME NEW r \in Runs, Answer(r) PROVE Effects'
  BY <1>12 DEF Answer, ledger, platform, run, withdrawal, Busy, Executing, IsRich, Reports, Unsent,
     Effects, TypeOK, Owners, Begun, InCharge, Owns
<1>13. ASSUME NEW r \in Runs, RunnerCloses(r) PROVE Effects'
  BY <1>13 DEF RunnerCloses, ledger, platform, run, withdrawal, Busy, Ended, Executing, Effects,
     TypeOK, Owners, Begun, InCharge, Owns
<1>14. ASSUME NEW r \in Runs, CloseBrowser(r) PROVE Effects'
  BY <1>14 DEF CloseBrowser, Close, Dispose, Release, ledger, platform, runner, withdrawal, Busy,
     Ended, Executing, Effects, TypeOK, Owners, Begun, InCharge, Owns
<1>15. ASSUME NEW r \in Runs, Reconcile(r) PROVE Effects'
  BY <1>15 DEF Reconcile, Dispose, Release, ledger, platform, run, withdrawal, Busy, Ended, Executing,
     Effects, TypeOK, Owners, Begun, InCharge, Owns
<1>16. ASSUME RunnerRestart PROVE Effects'
  BY <1>16 DEF RunnerRestart, ledger, platform, run, withdrawal, Ended, Executing, Effects, TypeOK,
     Owners, Begun, InCharge, Owns
<1>17. ASSUME NEW r \in Runs, Reserve(r) \/ Open(r) \/ GiveUp(r) \/ FailBeforeSending(r) \/ Deny(r) \/
              RunOver(r) \/ Receive(r) \/ TimeOut(r) \/ Finish(r) \/ FinishWithdrawal(r) \/
              Crash(r)
       PROVE  Effects'
  <2>1. UNCHANGED <<posts, deletes, kind, target, attempt, cleaner, exec>>
    BY <1>17 DEF Crash, Deny, FailBeforeSending, Finish, FinishWithdrawal, GiveUp, Open, Receive,
       Release, Reserve, RunOver, TimeOut, ledger, platform, run, runner, withdrawal
  <2> QED
    BY <2>1 DEF Effects
<1>18. ASSUME NEW t \in Targets, Resolve(t) \/ Expire(t) \/ Deadline(t) \/ Revoke(t)
       PROVE  Effects'
  <2>1. UNCHANGED <<posts, deletes, kind, target, attempt, cleaner, exec>>
    BY <1>18 DEF Deadline, Expire, Resolve, Revoke, ledger, platform, run, runner, withdrawal
  <2> QED
    BY <2>1 DEF Effects
<1>19. ASSUME Lapse \/ PauseOrResume
       PROVE  Effects'
  <2>1. UNCHANGED <<posts, deletes, kind, target, attempt, cleaner, exec>>
    BY <1>19 DEF Lapse, PauseOrResume, ledger, platform, run, runner, withdrawal
  <2> QED
    BY <2>1 DEF Effects
<1>20. CASE UNCHANGED vars
  BY <1>20 DEF vars, ledger, withdrawal, run, runner, platform, Effects
<1> QED
  BY <1>1, <1>2, <1>3, <1>4, <1>5, <1>6, <1>7, <1>8, <1>9, <1>10, <1>11, <1>12, <1>13,
     <1>14, <1>15, <1>16, <1>17, <1>18, <1>19, <1>20 DEF Next

(* Permissions: what a rich execution does, it asked for and was granted. *)
LEMMA PermitsKept == Sends /\ [Next]_vars => Permits'
<1> SUFFICES ASSUME Sends, [Next]_vars PROVE Permits'
  OBVIOUS
<1> USE DEF Sends
<1>1. ASSUME NEW r \in Runs, Plan(r) PROVE Permits'
  BY <1>1 DEF Plan, permission, runner, Unattempted, Permits, IsRich, TypeOK, Owners, Begun,
     InCharge, Owns
<1>2. ASSUME NEW r \in Runs, Abandon(r) PROVE Permits'
  BY <1>2 DEF Abandon, Close, Dispose, Release, permission, runner, Busy, Ended, Executing, Permits,
     IsRich, TypeOK, Owners, Begun, InCharge, Owns
<1>3. ASSUME NEW r \in Runs, Dispatch(r) PROVE Permits'
  BY <1>3 DEF Dispatch, IsRich, Registrable, Permits, TypeOK, Owners, Begun, InCharge, Owns
<1>4. ASSUME NEW r \in Runs, FailBeforeSending(r) PROVE Permits'
  BY <1>4 DEF FailBeforeSending, runner, IsRich, Unsent, Permits, TypeOK, Owners, Begun, InCharge,
     Owns
<1>5. ASSUME NEW r \in Runs, Accept(r) PROVE Permits'
  BY <1>5 DEF Accept, permission, run, Permits, IsRich, TypeOK, Owners, Begun, InCharge, Owns
<1>6. ASSUME NEW r \in Runs, Refuse(r) PROVE Permits'
  BY <1>6 DEF Refuse, permission, run, Unsent, Permits, IsRich, TypeOK, Owners, Begun, InCharge, Owns
<1>7. ASSUME NEW r \in Runs, Ask(r) PROVE Permits'
  BY <1>7 DEF Ask, permission, run, IsRich, Permits, TypeOK, Owners, Begun, InCharge, Owns
<1>8. ASSUME NEW r \in Runs, Authorize(r) PROVE Permits'
  BY <1>8 DEF Authorize, run, MaySend, Permits, IsRich, TypeOK, Owners, Begun, InCharge, Owns
<1>9. ASSUME NEW r \in Runs, Deny(r) PROVE Permits'
  BY <1>9 DEF Deny, permission, run, Permits, IsRich, TypeOK, Owners, Begun, InCharge, Owns
<1>10. ASSUME NEW r \in Runs, Upload(r) PROVE Permits'
  BY <1>10 DEF Upload, permission, run, Permits, IsRich, TypeOK, Owners, Begun, InCharge, Owns
<1>11. ASSUME NEW r \in Runs, Act(r) PROVE Permits'
  BY <1>11 DEF Act, Submits, permission, run, IsRich, Permits, TypeOK, Owners, Begun, InCharge, Owns
<1>12. ASSUME NEW r \in Runs, Answer(r) PROVE Permits'
  BY <1>12 DEF Answer, permission, run, Busy, Executing, IsRich, Reports, Unsent, Permits, TypeOK,
     Owners, Begun, InCharge, Owns
<1>13. ASSUME NEW r \in Runs, RunnerCloses(r) PROVE Permits'
  BY <1>13 DEF RunnerCloses, permission, run, Busy, Ended, Executing, Permits, IsRich, TypeOK, Owners,
     Begun, InCharge, Owns
<1>14. ASSUME NEW r \in Runs, CloseBrowser(r) PROVE Permits'
  BY <1>14 DEF CloseBrowser, Close, Dispose, Release, permission, runner, Busy, Ended, Executing,
     Permits, IsRich, TypeOK, Owners, Begun, InCharge, Owns
<1>15. ASSUME NEW r \in Runs, Reconcile(r) PROVE Permits'
  BY <1>15 DEF Reconcile, Dispose, Release, permission, run, Busy, Ended, Executing, Permits, IsRich,
     TypeOK, Owners, Begun, InCharge, Owns
<1>16. ASSUME RunnerRestart PROVE Permits'
  BY <1>16 DEF RunnerRestart, permission, run, Ended, Executing, Permits, IsRich, TypeOK, Owners,
     Begun, InCharge, Owns
<1>17. ASSUME NEW r \in Runs, Reserve(r) \/ Open(r) \/ GiveUp(r) \/ Claim(r) \/ ClaimWithdrawal(r) \/
              RunOver(r) \/ Receive(r) \/ TimeOut(r) \/ Finish(r) \/ FinishWithdrawal(r) \/
              Crash(r)
       PROVE  Permits'
  <2>1. UNCHANGED <<asked, exec, kind, target, ticket>>
    BY <1>17 DEF Claim, ClaimWithdrawal, Crash, Finish, FinishWithdrawal, GiveUp, Open, Receive,
       Release, Reserve, RunOver, TimeOut, permission, run, runner
  <2> QED
    BY <2>1 DEF Permits, IsRich
<1>18. ASSUME NEW t \in Targets, Resolve(t) \/ Expire(t) \/ Deadline(t) \/ Revoke(t)
       PROVE  Permits'
  <2>1. UNCHANGED <<asked, exec, kind, target, ticket>>
    BY <1>18 DEF Deadline, Expire, Resolve, Revoke, permission, run, runner
  <2> QED
    BY <2>1 DEF Permits, IsRich
<1>19. ASSUME Lapse \/ PauseOrResume
       PROVE  Permits'
  <2>1. UNCHANGED <<asked, exec, kind, target, ticket>>
    BY <1>19 DEF Lapse, PauseOrResume, permission, run, runner
  <2> QED
    BY <2>1 DEF Permits, IsRich
<1>20. CASE UNCHANGED vars
  BY <1>20 DEF vars, permission, run, runner, Permits, IsRich
<1> QED
  BY <1>1, <1>2, <1>3, <1>4, <1>5, <1>6, <1>7, <1>8, <1>9, <1>10, <1>11, <1>12, <1>13,
     <1>14, <1>15, <1>16, <1>17, <1>18, <1>19, <1>20 DEF Next

(* Words: an answer other than unknown ends the execution it speaks of. *)
LEMMA WordsKept == Sends /\ [Next]_vars => Words'
<1> SUFFICES ASSUME Sends, [Next]_vars PROVE Words'
  OBVIOUS
<1> USE DEF Sends
<1>1. ASSUME NEW r \in Runs, Plan(r) PROVE Words'
  BY <1>1 DEF Plan, Goto, platform, runner, Unattempted, Words, IsTrue, Alive, TypeOK, Owners, Begun,
     InCharge, Owns, Effects
<1>2. ASSUME NEW r \in Runs, Reserve(r) PROVE Words'
  BY <1>2 DEF Reserve, Goto, platform, runner, Free, Words, IsTrue, Alive, TypeOK, Owners, Begun,
     InCharge, Owns, Effects
<1>3. ASSUME NEW r \in Runs, Open(r) PROVE Words'
  BY <1>3 DEF Open, Goto, platform, Holds, Unattempted, Words, IsTrue, Alive, TypeOK, Owners, Begun,
     InCharge, Owns, Effects
<1>4. ASSUME NEW r \in Runs, GiveUp(r) PROVE Words'
  BY <1>4 DEF GiveUp, Goto, Release, platform, runner, Words, IsTrue, Alive, TypeOK, Owners, Begun,
     InCharge, Owns, Effects
<1>5. ASSUME NEW r \in Runs, Abandon(r) PROVE Words'
  BY <1>5 DEF Abandon, Close, Dispose, Goto, Release, platform, runner, Busy, Ended, Executing,
     Words, IsTrue, Alive, TypeOK, Owners, Begun, InCharge, Owns, Effects
<1>6. ASSUME NEW r \in Runs, Claim(r) PROVE Words'
  BY <1>6 DEF Claim, Goto, platform, runner, Claimable, Holds, Unattempted, Words, IsTrue, Alive,
     TypeOK, Owners, Begun, InCharge, Owns, Effects
<1>7. ASSUME NEW r \in Runs, ClaimWithdrawal(r) PROVE Words'
  BY <1>7 DEF ClaimWithdrawal, Goto, platform, runner, Holds, Words, IsTrue, Alive, TypeOK, Owners,
     Begun, InCharge, Owns, Effects
<1>8. ASSUME NEW r \in Runs, Dispatch(r) PROVE Words'
  BY <1>8 DEF Dispatch, Goto, platform, IsRich, Registrable, Words, IsTrue, Alive, TypeOK, Owners,
     Begun, InCharge, Owns, Effects
<1>9. ASSUME NEW r \in Runs, FailBeforeSending(r) PROVE Words'
  BY <1>9 DEF FailBeforeSending, Goto, platform, runner, IsRich, Unsent, Words, IsTrue, Alive,
     TypeOK, Owners, Begun, InCharge, Owns, Effects
<1>10. ASSUME NEW r \in Runs, Accept(r) PROVE Words'
  BY <1>10 DEF Accept, platform, run, Words, IsTrue, Alive, TypeOK, Owners, Begun, InCharge, Owns,
     Effects
<1>11. ASSUME NEW r \in Runs, Refuse(r) PROVE Words'
  BY <1>11 DEF Refuse, platform, run, Unsent, Words, IsTrue, Alive, TypeOK, Owners, Begun, InCharge,
     Owns, Effects
<1>12. ASSUME NEW r \in Runs, Ask(r) PROVE Words'
  BY <1>12 DEF Ask, platform, run, IsRich, Words, IsTrue, Alive, TypeOK, Owners, Begun, InCharge,
     Owns, Effects
<1>13. ASSUME NEW r \in Runs, Authorize(r) PROVE Words'
  BY <1>13 DEF Authorize, platform, run, MaySend, Words, IsTrue, Alive, TypeOK, Owners, Begun,
     InCharge, Owns, Effects
<1>14. ASSUME NEW r \in Runs, Upload(r) PROVE Words'
  BY <1>14 DEF Upload, platform, run, Words, IsTrue, Alive, TypeOK, Owners, Begun, InCharge, Owns,
     Effects
<1>15. ASSUME NEW r \in Runs, Act(r) PROVE Words'
  <2>1. /\ Alive(r) /\ \A p \in Runs : Alive(p)' = Alive(p)
        /\ UNCHANGED <<run, reply>>
    BY <1>15 DEF Act, Submits, IsRich, Alive, TypeOK
  <2>2. \A p \in Runs \ {r}, x \in Targets :
            (p \in posts'[x]) = (p \in posts[x]) /\ (p \in deletes'[x]) = (p \in deletes[x])
    BY <1>15 DEF Act, Submits, TypeOK
  <2>3. \A p \in Runs : exec[p] # "none" \/ pc[p] # "idle" => target[p] \in Targets
    BY DEF Owners, Begun
  <2>4. ASSUME NEW p \in Runs, NEW v, p # r, IsTrue(p, v), target[p] \in Targets
        PROVE  IsTrue(p, v)'
    BY <2>1, <2>2, <2>4 DEF IsTrue, run
  <2>5. \A p \in Runs : reply[p] # None => exec[p] # "none"
    BY DEF Owners
  <2>6. \A v : IsTrue(r, v) => v = "unknown"
    BY <2>1 DEF IsTrue
  <2>7. ASSUME NEW v, v = "unknown" PROVE IsTrue(r, v)'
    BY <2>7 DEF IsTrue
  <2> QED
    BY <2>1, <2>3, <2>4, <2>5, <2>6, <2>7 DEF Words, run
<1>16. ASSUME NEW r \in Runs, Answer(r) PROVE Words'
  BY <1>16 DEF Answer, platform, run, Busy, Executing, IsRich, Reports, Unsent, Words, IsTrue, Alive,
     TypeOK, Owners, Begun, InCharge, Owns, Effects
<1>17. ASSUME NEW r \in Runs, RunOver(r) PROVE Words'
  BY <1>17 DEF RunOver, platform, run, Busy, Executing, Words, IsTrue, Alive, TypeOK, Owners, Begun,
     InCharge, Owns, Effects
<1>18. ASSUME NEW r \in Runs, RunnerCloses(r) PROVE Words'
  BY <1>18 DEF RunnerCloses, platform, run, Busy, Ended, Executing, Words, IsTrue, Alive, TypeOK,
     Owners, Begun, InCharge, Owns, Effects
<1>19. ASSUME NEW r \in Runs, Receive(r) PROVE Words'
  BY <1>19 DEF Receive, Goto, platform, runner, Words, IsTrue, Alive, TypeOK, Owners, Begun, InCharge,
     Owns, Effects
<1>20. ASSUME NEW r \in Runs, TimeOut(r) PROVE Words'
  BY <1>20 DEF TimeOut, Goto, platform, runner, TimesOut, WhenLost, Words, IsTrue, Alive, TypeOK,
     Owners, Begun, InCharge, Owns, Effects
<1>21. ASSUME NEW r \in Runs, CloseBrowser(r) PROVE Words'
  BY <1>21 DEF CloseBrowser, Close, Dispose, Goto, Release, platform, runner, Busy, Ended, Executing,
     Words, IsTrue, Alive, TypeOK, Owners, Begun, InCharge, Owns, Effects
<1>22. ASSUME NEW r \in Runs, Finish(r) PROVE Words'
  BY <1>22 DEF Finish, Goto, platform, runner, CreationProof, Status, Words, IsTrue, Alive, TypeOK,
     Owners, Begun, InCharge, Owns, Effects
<1>23. ASSUME NEW r \in Runs, FinishWithdrawal(r) PROVE Words'
  BY <1>23 DEF FinishWithdrawal, Goto, platform, runner, Words, IsTrue, Alive, TypeOK, Owners, Begun,
     InCharge, Owns, Effects
<1>24. ASSUME NEW r \in Runs, Crash(r) PROVE Words'
  BY <1>24 DEF Crash, Goto, platform, runner, Words, IsTrue, Alive, TypeOK, Owners, Begun, InCharge,
     Owns, Effects
<1>25. ASSUME NEW r \in Runs, Reconcile(r) PROVE Words'
  BY <1>25 DEF Reconcile, Dispose, Release, platform, run, Busy, Ended, Executing, Words, IsTrue,
     Alive, TypeOK, Owners, Begun, InCharge, Owns, Effects
<1>26. ASSUME RunnerRestart PROVE Words'
  BY <1>26 DEF RunnerRestart, platform, run, Ended, Executing, Words, IsTrue, Alive, TypeOK, Owners,
     Begun, InCharge, Owns, Effects
<1>27. ASSUME NEW r \in Runs, Deny(r)
       PROVE  Words'
  <2>1. UNCHANGED <<reply, pc, result, exec, kind, target, posts, deletes>>
    BY <1>27 DEF Deny, platform, run
  <2> QED
    BY <2>1 DEF Words, IsTrue, Alive
<1>28. ASSUME NEW t \in Targets, Resolve(t) \/ Expire(t) \/ Deadline(t) \/ Revoke(t)
       PROVE  Words'
  <2>1. UNCHANGED <<reply, pc, result, exec, kind, target, posts, deletes>>
    BY <1>28 DEF Deadline, Expire, Resolve, Revoke, platform, run, runner
  <2> QED
    BY <2>1 DEF Words, IsTrue, Alive
<1>29. ASSUME Lapse \/ PauseOrResume
       PROVE  Words'
  <2>1. UNCHANGED <<reply, pc, result, exec, kind, target, posts, deletes>>
    BY <1>29 DEF Lapse, PauseOrResume, platform, run, runner
  <2> QED
    BY <2>1 DEF Words, IsTrue, Alive
<1>30. CASE UNCHANGED vars
  BY <1>30 DEF vars, run, runner, platform, Words, IsTrue, Alive
<1> QED
  BY <1>1, <1>2, <1>3, <1>4, <1>5, <1>6, <1>7, <1>8, <1>9, <1>10, <1>11, <1>12, <1>13,
     <1>14, <1>15, <1>16, <1>17, <1>18, <1>19, <1>20, <1>21, <1>22, <1>23, <1>24, <1>25,
     <1>26, <1>27, <1>28, <1>29, <1>30 DEF Next

(* Records: an outcome is a true word, and nothing happens after it unless
   it says unknown. *)
LEMMA RecordsKept == Sends /\ [Next]_vars => Records'
<1> SUFFICES ASSUME Sends, [Next]_vars PROVE Records'
  OBVIOUS
<1> USE DEF Sends
<1>1. ASSUME NEW r \in Runs, Abandon(r) PROVE Records'
  BY <1>1 DEF Abandon, Close, Dispose, Release, ledger, platform, runner, Busy, Ended, Executing,
     Records, Alive, TypeOK, Owners, Begun, InCharge, Owns, Effects, Words, IsTrue
<1>2. ASSUME NEW r \in Runs, Claim(r) PROVE Records'
  BY <1>2 DEF Claim, platform, runner, Claimable, Holds, Unattempted, Records, Alive, TypeOK, Owners,
     Begun, InCharge, Owns, Effects, Words, IsTrue
<1>3. ASSUME NEW r \in Runs, Dispatch(r) PROVE Records'
  <2>1. /\ pc[r] = "claimed" /\ UNCHANGED <<ledger, posts>>
        /\ \A p \in Runs \ {r} : Alive(p)' = Alive(p)
    BY <1>3 DEF Dispatch, platform, Alive, TypeOK
  <2>2. \A t \in Targets : attempt[t] = r => outcome[t] = None
    BY <2>1 DEF Owners, InCharge
  <2>3. \A t \in Targets : outcome[t] # None => attempt[t] \in Runs \ {r}
    BY <2>2 DEF Records, TypeOK
  <2> QED
    BY <2>1, <2>3, NoneAssumption DEF Records, ledger, Outcomes, TypeOK
<1>4. ASSUME NEW r \in Runs, Accept(r) PROVE Records'
  BY <1>4 DEF Accept, ledger, platform, Records, Alive, TypeOK, Owners, Begun, InCharge, Owns,
     Effects, Words, IsTrue
<1>5. ASSUME NEW r \in Runs, Refuse(r) PROVE Records'
  BY <1>5 DEF Refuse, ledger, platform, Unsent, Records, Alive, TypeOK, Owners, Begun, InCharge,
     Owns, Effects, Words, IsTrue
<1>6. ASSUME NEW r \in Runs, Ask(r) PROVE Records'
  BY <1>6 DEF Ask, ledger, platform, IsRich, Records, Alive, TypeOK, Owners, Begun, InCharge, Owns,
     Effects, Words, IsTrue
<1>7. ASSUME NEW r \in Runs, Authorize(r) PROVE Records'
  BY <1>7 DEF Authorize, ledger, platform, MaySend, Records, Alive, TypeOK, Owners, Begun, InCharge,
     Owns, Effects, Words, IsTrue
<1>8. ASSUME NEW r \in Runs, Upload(r) PROVE Records'
  BY <1>8 DEF Upload, ledger, platform, Records, Alive, TypeOK, Owners, Begun, InCharge, Owns,
     Effects, Words, IsTrue
<1>9. ASSUME NEW r \in Runs, Act(r) PROVE Records'
  <2> DEFINE t == target[r]
  <2>1. /\ t \in Targets /\ Owns(r) /\ Alive(r)
        /\ exec' = [exec EXCEPT ![r] = "acted"] /\ UNCHANGED ledger
    BY <1>9 DEF Act, Submits, IsRich, Owners, Begun, Alive
  <2>2. \A p \in Runs : Alive(p)' = Alive(p)
    BY <2>1 DEF Alive, TypeOK
  <2>3. \A x \in Targets : posts[x] \subseteq posts'[x] /\ (x # t => posts'[x] = posts[x])
    BY <1>9, <2>1 DEF Act, Submits, TypeOK
  <2>4. posts' # posts => attempt[t] = r
    BY <1>9, <2>1 DEF Act, Submits, Owns
  <2>5. posts' # posts => outcome[t] \in {None, "unknown"} /\ attempt[t] # None
    BY <2>1, <2>4, NoneAssumption DEF Records, TypeOK
  <2>6. \A x \in Targets : outcome[x] \in {"login_required", "unsupported"} /\ posts[x] = {} =>
            posts'[x] = {}
    BY <2>1, <2>3, <2>5, NoneAssumption DEF Outcomes
  <2> HIDE DEF t
  <2> QED
    BY <2>1, <2>2, <2>3, <2>5, <2>6, NoneAssumption DEF Records, ledger, TypeOK
<1>10. ASSUME NEW r \in Runs, Answer(r) PROVE Records'
  BY <1>10 DEF Answer, ledger, platform, Busy, Executing, IsRich, Reports, Unsent, Records, Alive,
     TypeOK, Owners, Begun, InCharge, Owns, Effects, Words, IsTrue
<1>11. ASSUME NEW r \in Runs, RunnerCloses(r) PROVE Records'
  BY <1>11 DEF RunnerCloses, ledger, platform, Busy, Ended, Executing, Records, Alive, TypeOK, Owners,
     Begun, InCharge, Owns, Effects, Words, IsTrue
<1>12. ASSUME NEW r \in Runs, CloseBrowser(r) PROVE Records'
  <2>1. \A p \in Runs : Alive(p)' => Alive(p)
    BY <1>12 DEF CloseBrowser, Close, Dispose, Ended, Executing, runner, Alive, TypeOK
  <2>2. UNCHANGED <<ledger, posts>>
    BY <1>12 DEF CloseBrowser, platform
  <2> QED
    BY <2>1, <2>2, NoneAssumption DEF Records, ledger, TypeOK
<1>13. ASSUME NEW r \in Runs, Finish(r) PROVE Records'
  <2> DEFINE t == target[r]
             v == result[r]
  <2>1. /\ t \in Targets /\ attempt[t] = r /\ outcome[t] = None /\ IsTrue(r, v)
        /\ kind[r] = "publish"
    BY <1>13 DEF Finish, Owners, InCharge, Owns, Words
  <2>2. /\ outcome' = [outcome EXCEPT ![t] = Status(v)]
        /\ proof' = IF CreationProof(v) THEN proof \cup {t} ELSE proof
        /\ UNCHANGED <<attempt, posts>> /\ \A p \in Runs : Alive(p)' = Alive(p)
    BY <1>13, <2>1 DEF Finish, runner, platform, Alive
  <2>3. CreationProof(v) \/ Status(v) = "verified" => r \in posts[t]
    BY <2>1 DEF IsTrue, CreationProof, Status, Replies, TypeOK
  <2>4. Status(v) \in {"login_required", "unsupported"} => posts[t] = {}
    <3>1. \A p \in Runs : p \in posts[t] => p = r
      BY <2>1 DEF Effects
    <3>2. Status(v) \in {"login_required", "unsupported"} => r \notin posts[t]
      BY <2>1 DEF IsTrue, Status, Replies, TypeOK
    <3> QED
      BY <2>1, <3>1, <3>2 DEF TypeOK
  <2>5. Status(v) # "unknown" => ~Alive(r)
    BY <2>1 DEF IsTrue, Status, Replies, TypeOK
  <2> HIDE DEF t, v
  <2>6. ASSUME NEW x \in Targets, x # t
        PROVE  outcome'[x] = outcome[x] /\ (x \in proof' => x \in proof)
    BY <2>2, <2>6
  <2>7. outcome'[t] = Status(v)
    BY <2>1, <2>2 DEF TypeOK
  <2> QED
    BY <2>1, <2>2, <2>3, <2>4, <2>5, <2>6, <2>7, NoneAssumption DEF Records, TypeOK
<1>14. ASSUME NEW r \in Runs, Reconcile(r) PROVE Records'
  BY <1>14 DEF Reconcile, Dispose, Release, ledger, platform, Busy, Ended, Executing, Records, Alive,
     TypeOK, Owners, Begun, InCharge, Owns, Effects, Words, IsTrue
<1>15. ASSUME RunnerRestart PROVE Records'
  <2>1. \A p \in Runs : Alive(p)' => Alive(p)
    BY <1>15 DEF RunnerRestart, Ended, Executing, Alive, TypeOK
  <2>2. UNCHANGED <<ledger, posts>>
    BY <1>15 DEF RunnerRestart, platform
  <2> QED
    BY <2>1, <2>2, NoneAssumption DEF Records, ledger, TypeOK
<1>16. ASSUME NEW r \in Runs, Plan(r) \/ Reserve(r) \/ Open(r) \/ GiveUp(r) \/ ClaimWithdrawal(r) \/
              FailBeforeSending(r) \/ Deny(r) \/ RunOver(r) \/ Receive(r) \/ TimeOut(r) \/
              FinishWithdrawal(r) \/ Crash(r)
       PROVE  Records'
  <2>1. UNCHANGED <<attempt, posts, outcome, proof, exec>>
    BY <1>16 DEF ClaimWithdrawal, Crash, Deny, FailBeforeSending, FinishWithdrawal, GiveUp, Open,
       Plan, Receive, Release, Reserve, RunOver, TimeOut, ledger, platform, runner
  <2> QED
    BY <2>1 DEF Records, Alive
<1>17. ASSUME NEW t \in Targets, Resolve(t) \/ Expire(t) \/ Deadline(t) \/ Revoke(t)
       PROVE  Records'
  <2>1. UNCHANGED <<attempt, posts, outcome, proof, exec>>
    BY <1>17 DEF Deadline, Expire, Resolve, Revoke, ledger, platform, runner
  <2> QED
    BY <2>1 DEF Records, Alive
<1>18. ASSUME Lapse \/ PauseOrResume
       PROVE  Records'
  <2>1. UNCHANGED <<attempt, posts, outcome, proof, exec>>
    BY <1>18 DEF Lapse, PauseOrResume, ledger, platform, runner
  <2> QED
    BY <2>1 DEF Records, Alive
<1>19. CASE UNCHANGED vars
  BY <1>19 DEF vars, ledger, runner, platform, Records, Alive
<1> QED
  BY <1>1, <1>2, <1>3, <1>4, <1>5, <1>6, <1>7, <1>8, <1>9, <1>10, <1>11, <1>12, <1>13,
     <1>14, <1>15, <1>16, <1>17, <1>18, <1>19 DEF Next

(* Withdrawals: begun only after a proven post, settled only by their run. *)
LEMMA CleanupsKept == Sends /\ [Next]_vars => Cleanups'
<1> SUFFICES ASSUME Sends, [Next]_vars PROVE Cleanups'
  OBVIOUS
<1> USE DEF Sends
<1>1. ASSUME NEW r \in Runs, Claim(r) PROVE Cleanups'
  BY <1>1 DEF Claim, platform, Claimable, Holds, Unattempted, Cleanups, TypeOK, Owners, Begun,
     InCharge, Owns, Effects, Words, IsTrue, Alive, Records
<1>2. ASSUME NEW r \in Runs, ClaimWithdrawal(r) PROVE Cleanups'
  BY <1>2 DEF ClaimWithdrawal, ledger, platform, Holds, Cleanups, TypeOK, Owners, Begun, InCharge,
     Owns, Effects, Words, IsTrue, Alive, Records
<1>3. ASSUME NEW r \in Runs, Act(r) PROVE Cleanups'
  <2>1. /\ \A x \in Targets : posts[x] \subseteq posts'[x] /\ deletes[x] \subseteq deletes'[x]
        /\ UNCHANGED <<attempt, cleanup, cleaner>>
    BY <1>3 DEF Act, Submits, ledger, withdrawal, TypeOK
  <2> QED
    BY <2>1 DEF Cleanups
<1>4. ASSUME NEW r \in Runs, FinishWithdrawal(r) PROVE Cleanups'
  BY <1>4 DEF FinishWithdrawal, Unsettled, ledger, platform, Cleanups, TypeOK, Owners, Begun, InCharge, Owns,
     Effects, Words, IsTrue, Alive, Records
<1>5. ASSUME NEW t \in Targets, Resolve(t) PROVE Cleanups'
  BY <1>5 DEF Resolve, ledger, platform, Cleanups, TypeOK, Owners, Begun, InCharge, Owns, Effects,
     Words, IsTrue, Alive, Records
<1>6. ASSUME NEW t \in Targets, Expire(t) PROVE Cleanups'
  BY <1>6 DEF Expire, ledger, platform, GivesUp, Cleanups, TypeOK, Owners, Begun, InCharge, Owns,
     Effects, Words, IsTrue, Alive, Records
<1>7. ASSUME NEW r \in Runs, Plan(r) \/ Reserve(r) \/ Open(r) \/ GiveUp(r) \/ Abandon(r) \/ Dispatch(r) \/
              FailBeforeSending(r) \/ Accept(r) \/ Refuse(r) \/ Ask(r) \/ Authorize(r) \/
              Deny(r) \/ Upload(r) \/ Answer(r) \/ RunOver(r) \/ RunnerCloses(r) \/
              Receive(r) \/ TimeOut(r) \/ CloseBrowser(r) \/ Finish(r) \/ Crash(r) \/
              Reconcile(r)
       PROVE  Cleanups'
  <2>1. UNCHANGED <<cleanup, attempt, posts, cleaner, deletes>>
    BY <1>7 DEF Abandon, Accept, Answer, Ask, Authorize, Close, CloseBrowser, Crash, Deny, Dispatch,
       Dispose, FailBeforeSending, Finish, GiveUp, Open, Plan, Receive, Reconcile, Refuse,
       Release, Reserve, RunOver, RunnerCloses, TimeOut, Upload, ledger, platform,
       withdrawal
  <2> QED
    BY <2>1 DEF Cleanups
<1>8. ASSUME NEW t \in Targets, Deadline(t) \/ Revoke(t)
       PROVE  Cleanups'
  <2>1. UNCHANGED <<cleanup, attempt, posts, cleaner, deletes>>
    BY <1>8 DEF Deadline, Revoke, ledger, platform, withdrawal
  <2> QED
    BY <2>1 DEF Cleanups
<1>9. ASSUME RunnerRestart \/ Lapse \/ PauseOrResume
       PROVE  Cleanups'
  <2>1. UNCHANGED <<cleanup, attempt, posts, cleaner, deletes>>
    BY <1>9 DEF Lapse, PauseOrResume, RunnerRestart, ledger, platform, withdrawal
  <2> QED
    BY <2>1 DEF Cleanups
<1>10. CASE UNCHANGED vars
  BY <1>10 DEF vars, ledger, withdrawal, platform, Cleanups
<1> QED
  BY <1>1, <1>2, <1>3, <1>4, <1>5, <1>6, <1>7, <1>8, <1>9, <1>10 DEF Next

(* Nothing is reserved, claimed, asked or done at the start.               *)
LEMMA SendsInit == Init => Sends
<1> SUFFICES ASSUME Init PROVE Sends
  OBVIOUS
<1>1. TypeOK
  <2>1. /\ posts \in [Targets -> SUBSET Runs] /\ deletes \in [Targets -> SUBSET Runs]
        /\ restarts \in 0..MaxRestarts
    BY BoundsAssumption DEF Init
  <2>2. /\ proof \subseteq Targets /\ late \subseteq Targets /\ revoked \subseteq Rich
        /\ asked \subseteq Runs
    BY DEF Init
  <2>3. /\ holder \in Runs \cup {None} /\ bound \in BOOLEAN /\ lapsed \in BOOLEAN
        /\ active \in BOOLEAN
    BY DEF Init
  <2>4. /\ attempt \in [Targets -> Runs \cup {None}]
        /\ outcome \in [Targets -> Outcomes \cup {None}]
        /\ intent \in [Targets -> {"unverified", "unknown", "verified"}]
        /\ command \in [Targets -> {"pending", "claimed", "delivered"}]
        /\ ticket \in [Targets -> {"none", "registered", "authorized"}]
    BY DEF Init
  <2>5. /\ cleanup \in [Targets -> {"none", "awaiting", "ready", "claimed", "unknown",
                                    "withdrawn"}]
        /\ cleaner \in [Targets -> Runs \cup {None}]
    BY DEF Init
  <2>6. /\ pc \in [Runs -> {"idle", "planned", "reserved", "open", "claimed",
                            "waiting", "closing", "finishing", "done", "dead"}]
        /\ kind \in [Runs -> {"publish", "withdraw"}]
        /\ target \in [Runs -> Targets \cup {None}]
        /\ result \in [Runs -> Replies]
    BY DEF Init, Replies
  <2>7. /\ session \in [Runs -> {"none", "live", "closed", "stranded"}]
        /\ exec \in [Runs -> {"none", "inflight", "running", "asking", "granted",
                              "sending", "acted", "done"}]
        /\ reply \in [Runs -> Replies \cup {None}]
    BY DEF Init
  <2> QED
    BY <2>1, <2>2, <2>3, <2>4, <2>5, <2>6, <2>7 DEF TypeOK
<1>2. Gates /\ Reserved /\ Owners
  BY NoneAssumption DEF Init, Gates, Reserved, Owners, Begun, InCharge, Owns
<1>3. Effects /\ Permits /\ Words
  BY DEF Init, Effects, Permits, Words, IsTrue, Alive
<1>4. Records /\ Cleanups
  BY NoneAssumption DEF Init, Records, Cleanups, Outcomes
<1> QED
  BY <1>1, <1>2, <1>3, <1>4 DEF Sends

(* The parts together are inductive.                                       *)
LEMMA SendsStep == Sends /\ [Next]_vars => Sends'
  BY TypeOKKept, GatesKept, ReservedKept, OwnersKept, EffectsKept, PermitsKept, WordsKept, RecordsKept,
     CleanupsKept DEF Sends

-----------------------------------------------------------------------------
(* Theorems                                                                *)

(* The combined invariant of gate, ledger, runs, runner and platform.      *)
THEOREM SendsAlways == Spec => []Sends
  BY SendsInit, SendsStep, PTL DEF Spec

(* Gate, ledger, permissions, runs and sessions always have their types.   *)
THEOREM SendTypeCorrect == Spec => []TypeOK
<1>1. Sends => TypeOK
  BY DEF Sends
<1> QED
  BY <1>1, SendsAlways, PTL

(* However many runs try, crash, time out or come late, only the one       *)
(* attempt of a target posts it.                                           *)
THEOREM NothingIsPostedTwice == Spec => []PostedAtMostOnce
<1>1. Sends => PostedAtMostOnce
  BY NoneAssumption DEF Sends, TypeOK, Effects, PostedAtMostOnce
<1> QED
  BY <1>1, SendsAlways, PTL

(* A live browser that can act holds the gate, so there is only one.       *)
THEOREM SendsExcludeEachOther == Spec => []OneSendAtATime
<1>1. Sends => OneSendAtATime
  BY DEF Sends, Gates, OneSendAtATime, Acting
<1> QED
  BY <1>1, SendsAlways, PTL

(* Only a post of the target itself is ever withdrawn, once, and a         *)
(* withdrawal is reported only if it happened.                             *)
THEOREM CleanupsAreExact == Spec => []CleanupIsExact
<1>1. Sends => CleanupIsExact
  <2> SUFFICES ASSUME Sends, NEW t \in Targets
               PROVE  /\ deletes[t] # {} => t \in Withdrawing /\ posts[t] # {}
                      /\ deletes[t] \subseteq {cleaner[t]} \ {None}
                      /\ cleanup[t] = "withdrawn" => deletes[t] # {}
    BY DEF CleanupIsExact
  <2>1. \A r \in deletes[t] : r \in Runs /\ cleaner[t] = r
    BY DEF Sends, TypeOK, Effects
  <2> QED
    BY <2>1, NoneAssumption DEF Sends, Cleanups
<1> QED
  BY <1>1, SendsAlways, PTL

(* Without permission given before, a pause or a withdrawn media grant     *)
(* keeps a rich publication from being sent.                               *)
THEOREM RevokedIsNotSent == Spec => RevokedStaysUnsent
<1>1. Sends /\ [Next]_vars =>
        [\A t \in Rich :
           (~active \/ t \in revoked) /\ ticket[t] # "authorized"
               => ticket'[t] # "authorized" /\ posts'[t] = posts[t]]_vars
  <2> SUFFICES ASSUME Sends, Next, NEW t \in Rich, ~active \/ t \in revoked,
                      ticket[t] # "authorized"
               PROVE  ticket'[t] # "authorized" /\ posts'[t] = posts[t]
    OBVIOUS
  <2> USE TargetsAssumption DEF Sends
  <2>1. ASSUME NEW r \in Runs, Authorize(r)
        PROVE  ticket'[t] # "authorized" /\ posts'[t] = posts[t]
    BY <2>1 DEF Authorize, MaySend, platform, TypeOK
  <2>2. ASSUME NEW r \in Runs, Act(r)
        PROVE  ticket'[t] # "authorized" /\ posts'[t] = posts[t]
    <3>1. UNCHANGED ticket
      BY <2>2 DEF Act, Submits, permission
    <3>2. kind[r] = "publish" => target[r] # t
      BY <2>2 DEF Act, Submits, IsRich, Permits
    <3> QED
      BY <2>2, <3>1, <3>2 DEF Act, Submits, TypeOK
  <2>3. ASSUME NEW r \in Runs, Dispatch(r) \/ FailBeforeSending(r)
        PROVE  ticket'[t] # "authorized" /\ posts'[t] = posts[t]
    BY <2>3 DEF Dispatch, FailBeforeSending, platform, TypeOK
  <2>4. ASSUME NEW r \in Runs, Plan(r) \/ Reserve(r) \/ Open(r) \/ GiveUp(r) \/ Abandon(r) \/ Claim(r) \/
               ClaimWithdrawal(r) \/ Accept(r) \/ Refuse(r) \/ Ask(r) \/ Deny(r) \/
               Upload(r) \/ Answer(r) \/ RunOver(r) \/ RunnerCloses(r) \/ Receive(r) \/
               TimeOut(r) \/ CloseBrowser(r) \/ Finish(r) \/ FinishWithdrawal(r) \/ Crash(r)
               \/ Reconcile(r)
        PROVE  UNCHANGED <<ticket, posts>>
    BY <2>4 DEF Abandon, Accept, Answer, Ask, Claim, ClaimWithdrawal, CloseBrowser, Crash, Deny,
       Finish, FinishWithdrawal, GiveUp, Open, Plan, Receive, Reconcile, Refuse, Reserve,
       RunOver, RunnerCloses, TimeOut, Upload, permission, platform
  <2>5. ASSUME NEW x \in Targets, Resolve(x) \/ Expire(x) \/ Deadline(x) \/ Revoke(x)
        PROVE  UNCHANGED <<ticket, posts>>
    BY <2>5 DEF Deadline, Expire, Resolve, Revoke, permission, platform
  <2>6. ASSUME RunnerRestart \/ Lapse \/ PauseOrResume
        PROVE  UNCHANGED <<ticket, posts>>
    BY <2>6 DEF Lapse, PauseOrResume, RunnerRestart, permission, platform
  <2> QED
    BY <2>1, <2>2, <2>3, <2>4, <2>5, <2>6 DEF Next
<1> QED
  BY <1>1, SendsAlways, PTL DEF Spec, RevokedStaysUnsent

(* The ledger implements its promise: a claim is the target's one attempt, *)
(* an act of a publishing execution its post, a finish its verdict.        *)
THEOREM SendImplementsOneShot == Spec => ImplementsOneShotPublication
<1>1. Init => Publication!Init
  <2> SUFFICES ASSUME Init PROVE Publication!Init
    OBVIOUS
  <2>1. \A t \in Targets : Verdict(t) = "none"
    BY NoneAssumption DEF Init, Verdict, Outcomes
  <2> QED
    BY <2>1 DEF Init, Publication!Init
<1>2. Sends /\ [Next]_vars => [Publication!Next]_(Publication!vars)
  <2> SUFFICES ASSUME Sends, [Next]_vars PROVE [Publication!Next]_(Publication!vars)
    OBVIOUS
  <2> USE DEF Sends
  <2>1. ASSUME NEW r \in Runs, Claim(r) PROVE Publication!Next
    <3>1. target[r] \in Targets /\ attempt[target[r]] = None
      BY <2>1 DEF Claim, Claimable, Unattempted, Owners
    <3>2. attempt' = [attempt EXCEPT ![target[r]] = r] /\ UNCHANGED <<posts, outcome>>
      BY <2>1 DEF Claim, platform
    <3>3. Publication!Claim(target[r], r)
      BY <3>1, <3>2 DEF Publication!Claim, Verdict
    <3> QED
      BY <3>1, <3>3 DEF Publication!Next
  <2>2. ASSUME NEW r \in Runs, Act(r) PROVE [Publication!Next]_(Publication!vars)
    <3> DEFINE t == target[r]
    <3>1. UNCHANGED <<attempt, outcome>> /\ Alive(r) /\ t \in Targets /\ Owns(r)
      BY <2>2 DEF Act, Submits, IsRich, Alive, Owners, Begun, ledger
    <3>2. CASE kind[r] = "withdraw"
      <4>1. UNCHANGED <<attempt, outcome, posts>>
        BY <2>2, <3>2 DEF Act, Submits, ledger
      <4> QED
        BY <4>1 DEF Publication!vars, Verdict
    <3>3. CASE kind[r] = "publish"
      <4>1. attempt[t] = r /\ posts' = [posts EXCEPT ![t] = @ \cup {r}]
        BY <2>2, <3>1, <3>3 DEF Act, Submits, Owns
      <4>2. posts[t] = {}
        BY <2>2, <3>1, <4>1 DEF Act, Submits, IsRich, Effects, TypeOK
      <4>3. outcome[t] \in {None, "unknown"}
        BY <3>1, <4>1 DEF Records, TypeOK
      <4>4. Verdict(t) \in {"none", "unknown"}
        BY <4>3, NoneAssumption DEF Verdict, Outcomes
      <4>5. Publication!Post(t)
        BY <3>1, <4>1, <4>2, <4>4, NoneAssumption DEF Publication!Post, Verdict, TypeOK
      <4> QED
        BY <3>1, <4>5 DEF Publication!Next
    <3> QED
      BY <3>2, <3>3 DEF TypeOK
  <2>3. ASSUME NEW r \in Runs, Finish(r) PROVE Publication!Next
    <3>1. PICK t \in Targets, v \in Replies : t = target[r] /\ v = result[r]
      BY <2>3 DEF Finish, Owners, Begun, TypeOK
    <3>2. /\ t \in Targets /\ attempt[t] = r /\ outcome[t] = None /\ IsTrue(r, v)
          /\ kind[r] = "publish" /\ v \in Replies
      BY <2>3, <3>1 DEF Finish, Owners, InCharge, Owns, Words
    <3>3. outcome' = [outcome EXCEPT ![t] = Status(v)] /\ UNCHANGED <<attempt, posts>>
      BY <2>3, <3>1, <3>2 DEF Finish, platform
    <3>4. Status(v) \in Outcomes /\ (Status(v) = "verified" => r \in posts[t])
      BY <3>1, <3>2 DEF IsTrue, Status, Replies, Outcomes
    <3>5. Status(v) \in {"login_required", "unsupported"} => posts[t] = {}
      <4>1. \A p \in Runs : p \in posts[t] => p = r
        BY <3>2 DEF Effects
      <4>2. Status(v) \in {"login_required", "unsupported"} => r \notin posts[t]
        BY <3>1, <3>2 DEF IsTrue, Status, Replies
      <4> QED
        BY <3>2, <4>1, <4>2 DEF TypeOK
    <3>6. outcome'[t] = Status(v) /\ \A x \in Targets \ {t} : outcome'[x] = outcome[x]
      BY <3>2, <3>3 DEF TypeOK
    <3>7. PICK word : word = IF Status(v) = "verified" THEN "published"
                     ELSE IF Status(v) = "unknown" THEN "unknown" ELSE "not_published"
      OBVIOUS
    <3>8. /\ word \in {"published", "not_published", "unknown"}
          /\ word = "published" => posts[t] # {}
          /\ word = "not_published" => posts[t] = {}
      BY <3>4, <3>5, <3>7 DEF Outcomes
    <3>9. Verdict(t) = "none"
      BY <3>2, NoneAssumption DEF Verdict, Outcomes
    <3>10. outcome'[t] # None
      BY <3>4, <3>6, NoneAssumption
    <3>11. (Verdict(t))' = word
      BY <3>2, <3>4, <3>6, <3>7, <3>10 DEF Verdict, Outcomes
    <3>12. \A x \in Targets : (Verdict(x))' = IF x = t THEN word ELSE Verdict(x)
      <4> SUFFICES ASSUME NEW x \in Targets, x # t PROVE (Verdict(x))' = Verdict(x)
        BY <3>11
      <4> QED
        BY <3>6, NoneAssumption DEF Verdict, Outcomes, TypeOK
    <3>13. [x \in Targets |-> Verdict(x)]' =
              [[x \in Targets |-> Verdict(x)] EXCEPT ![t] = word]
      BY <3>12
    <3>14. attempt[t] # None
      BY <3>2, NoneAssumption
    <3>15. Publication!Judge(t, word)
      BY <3>3, <3>8, <3>9, <3>13, <3>14 DEF Publication!Judge
    <3> QED
      BY <3>8, <3>15 DEF Publication!Next
  <2>4. ASSUME UNCHANGED <<attempt, posts, outcome>> PROVE UNCHANGED Publication!vars
    BY <2>4 DEF Publication!vars, Verdict
  <2>5. ASSUME NEW r \in Runs, Plan(r) \/ Reserve(r) \/ Open(r) \/ GiveUp(r) \/ Abandon(r) \/
               ClaimWithdrawal(r) \/ Dispatch(r) \/ FailBeforeSending(r) \/ Accept(r) \/
               Refuse(r) \/ Ask(r) \/ Authorize(r) \/ Deny(r) \/ Upload(r) \/ Answer(r) \/
               RunOver(r) \/ RunnerCloses(r) \/ Receive(r) \/ TimeOut(r) \/ CloseBrowser(r)
               \/ FinishWithdrawal(r) \/ Crash(r) \/ Reconcile(r)
        PROVE  UNCHANGED <<attempt, posts, outcome>>
    BY <2>5 DEF Abandon, Accept, Answer, Ask, Authorize, ClaimWithdrawal, CloseBrowser, Crash, Deny,
       Dispatch, FailBeforeSending, FinishWithdrawal, GiveUp, Open, Plan, Receive,
       Reconcile, Refuse, Reserve, RunOver, RunnerCloses, TimeOut, Upload, ledger, platform
  <2>6. ASSUME NEW x \in Targets, Resolve(x) \/ Expire(x) \/ Deadline(x) \/ Revoke(x)
        PROVE  UNCHANGED <<attempt, posts, outcome>>
    BY <2>6 DEF Deadline, Expire, Resolve, Revoke, ledger, platform
  <2>7. ASSUME RunnerRestart \/ Lapse \/ PauseOrResume
        PROVE  UNCHANGED <<attempt, posts, outcome>>
    BY <2>7 DEF Lapse, PauseOrResume, RunnerRestart, ledger, platform
  <2>8. CASE UNCHANGED vars
    BY <2>4, <2>8 DEF vars, ledger, platform
  <2> QED
    BY <2>1, <2>2, <2>3, <2>4, <2>5, <2>6, <2>7, <2>8 DEF Next
<1> QED
  BY <1>1, <1>2, SendsAlways, PTL DEF Spec, Publication!Spec, ImplementsOneShotPublication

(* A withdrawal is one-shot as well: claimed by one run, whose act is the  *)
(* only deletion, and settled once, by that run or by its expiry.          *)
THEOREM SendWithdrawsOnce == Spec => WithdrawalsAreOneShot
<1> DEFINE said(t) == CASE cleanup[t] = "withdrawn" -> "published"
                       [] cleanup[t] = "unknown" -> "unknown"
                       [] OTHER -> "none"
<1>1. Init => Withdrawal!Init
  BY DEF Init, Withdrawal!Init
<1>2. Sends /\ [Next]_vars => [Withdrawal!Next]_(Withdrawal!vars)
  <2> SUFFICES ASSUME Sends, [Next]_vars PROVE [Withdrawal!Next]_(Withdrawal!vars)
    OBVIOUS
  <2> USE DEF Sends
  <2>1. ASSUME NEW r \in Runs, ClaimWithdrawal(r) PROVE Withdrawal!Next
    <3>1. target[r] \in Targets /\ cleanup[target[r]] = "ready" /\ cleaner[target[r]] = None
      BY <2>1 DEF ClaimWithdrawal, Owners, Cleanups
    <3>2. /\ cleaner' = [cleaner EXCEPT ![target[r]] = r] /\ UNCHANGED deletes
          /\ cleanup' = [cleanup EXCEPT ![target[r]] = "claimed"]
      BY <2>1 DEF ClaimWithdrawal, platform
    <3>3. \A t \in Targets : said(t)' = said(t)
      BY <3>1, <3>2 DEF TypeOK
    <3>4. Withdrawal!Claim(target[r], r)
      BY <3>1, <3>2, <3>3 DEF Withdrawal!Claim
    <3> QED
      BY <3>1, <3>4 DEF Withdrawal!Next
  <2>2. ASSUME NEW r \in Runs, Act(r) PROVE [Withdrawal!Next]_(Withdrawal!vars)
    <3> DEFINE t == target[r]
    <3>1. UNCHANGED <<cleaner, cleanup>> /\ t \in Targets /\ Owns(r)
      BY <2>2 DEF Act, Submits, IsRich, Owners, Begun, withdrawal
    <3>2. CASE kind[r] = "publish"
      <4>1. UNCHANGED <<cleaner, cleanup, deletes>>
        BY <2>2, <3>2 DEF Act, Submits, withdrawal
      <4> QED
        BY <4>1 DEF Withdrawal!vars
    <3>3. CASE kind[r] = "withdraw"
      <4>1. cleaner[t] = r /\ deletes' = [deletes EXCEPT ![t] = @ \cup {r}]
        BY <2>2, <3>1, <3>3 DEF Act, Submits, Owns
      <4>2. deletes[t] = {}
        BY <2>2, <3>1, <4>1 DEF Act, Submits, IsRich, Effects, TypeOK
      <4>3. cleanup[t] # "withdrawn" /\ cleaner[t] # None
        BY <3>1, <4>1, <4>2, NoneAssumption DEF Cleanups
      <4>4. Withdrawal!Post(t)
        BY <3>1, <4>1, <4>2, <4>3 DEF Withdrawal!Post, TypeOK
      <4> QED
        BY <3>1, <4>4 DEF Withdrawal!Next
    <3> QED
      BY <3>2, <3>3 DEF TypeOK
  <2>3. ASSUME NEW r \in Runs, FinishWithdrawal(r)
        PROVE  [Withdrawal!Next]_(Withdrawal!vars)
    <3>1. PICK t \in Targets : t = target[r]
      BY <2>3 DEF FinishWithdrawal, Owners
    <3>2. UNCHANGED <<cleaner, deletes>>
      BY <2>3 DEF FinishWithdrawal, platform
    <3>3. CASE ~Unsettled(t, r)
      <4>1. cleanup' = cleanup
        BY <2>3, <3>1, <3>3 DEF FinishWithdrawal, TypeOK
      <4> QED
        BY <3>2, <4>1 DEF Withdrawal!vars
    <3>4. CASE Unsettled(t, r)
      <4>1. PICK word \in {"published", "unknown"} :
               /\ word = "published" => deletes[t] # {}
               /\ cleanup' = [cleanup EXCEPT ![t] =
                                IF word = "published" THEN "withdrawn" ELSE "unknown"]
        BY <2>3, <3>1, <3>4 DEF FinishWithdrawal, Words, IsTrue
      <4>2. said(t) = "none" /\ said(t)' = word
        BY <3>4, <4>1 DEF Unsettled, TypeOK
      <4>3. \A x \in Targets : x # t => said(x)' = said(x)
        BY <4>1 DEF TypeOK
      <4>4. cleaner[t] # None
        BY <3>4, NoneAssumption DEF Unsettled
      <4>5. Withdrawal!Judge(t, word)
        BY <3>2, <4>1, <4>2, <4>3, <4>4 DEF Withdrawal!Judge
      <4> QED
        BY <4>5 DEF Withdrawal!Next
    <3> QED
      BY <3>3, <3>4
  <2>4. ASSUME NEW t \in Targets, Expire(t) PROVE Withdrawal!Next
    <3>1. /\ cleanup[t] = "claimed" /\ cleanup' = [cleanup EXCEPT ![t] = "unknown"]
          /\ UNCHANGED <<cleaner, deletes>>
      BY <2>4 DEF Expire, platform
    <3>2. said(t) = "none" /\ said(t)' = "unknown"
      BY <3>1 DEF TypeOK
    <3>3. \A x \in Targets : x # t => said(x)' = said(x)
      BY <3>1 DEF TypeOK
    <3>4. cleaner[t] # None
      BY <3>1 DEF Cleanups
    <3>5. Withdrawal!Judge(t, "unknown")
      BY <3>1, <3>2, <3>3, <3>4 DEF Withdrawal!Judge
    <3> QED
      BY <3>5 DEF Withdrawal!Next
  <2>5. ASSUME UNCHANGED <<cleaner, deletes>>, \A t \in Targets : said(t)' = said(t)
        PROVE  UNCHANGED Withdrawal!vars
    BY <2>5 DEF Withdrawal!vars
  <2>6. ASSUME NEW r \in Runs, Claim(r) PROVE UNCHANGED Withdrawal!vars
    <3>1. PICK c \in Targets : c = target[r]
      BY <2>6 DEF Claim, Owners
    <3>2. cleanup[c] = "none"
      BY <2>6, <3>1 DEF Claim, Claimable, Unattempted, Cleanups
    <3>3. cleanup' = [cleanup EXCEPT ![c] = IF c \in Withdrawing THEN "awaiting" ELSE "none"]
      BY <2>6, <3>1, <3>2 DEF Claim, TypeOK
    <3>4. \A t \in Targets : said(t)' = said(t)
      BY <3>2, <3>3 DEF TypeOK
    <3> QED
      BY <2>5, <2>6, <3>4 DEF Claim, platform
  <2>7. ASSUME NEW t \in Targets, Resolve(t) PROVE UNCHANGED Withdrawal!vars
    BY <2>5, <2>7 DEF Resolve, platform, TypeOK
  <2>8. ASSUME NEW r \in Runs, Plan(r) \/ Reserve(r) \/ Open(r) \/ GiveUp(r) \/ Abandon(r) \/
               Dispatch(r) \/ FailBeforeSending(r) \/ Accept(r) \/
               Refuse(r) \/ Ask(r) \/ Authorize(r) \/ Deny(r) \/ Upload(r) \/ Answer(r) \/
               RunOver(r) \/ RunnerCloses(r) \/ Receive(r) \/ TimeOut(r) \/ CloseBrowser(r)
               \/ Finish(r) \/ Crash(r) \/ Reconcile(r)
        PROVE  UNCHANGED <<cleaner, deletes, cleanup>>
    BY <2>8 DEF Abandon, Accept, Answer, Ask, Authorize, CloseBrowser, Crash, Deny,
       Dispatch, FailBeforeSending, Finish, GiveUp, Open, Plan, Receive,
       Reconcile, Refuse, Reserve, RunOver, RunnerCloses, TimeOut, Upload, withdrawal, platform
  <2>9. ASSUME NEW x \in Targets, Deadline(x) \/ Revoke(x)
        PROVE  UNCHANGED <<cleaner, deletes, cleanup>>
    BY <2>9 DEF Deadline, Revoke, withdrawal, platform
  <2>10. ASSUME RunnerRestart \/ Lapse \/ PauseOrResume
         PROVE  UNCHANGED <<cleaner, deletes, cleanup>>
    BY <2>10 DEF Lapse, PauseOrResume, RunnerRestart, withdrawal, platform
  <2>11. CASE UNCHANGED vars
    BY <2>5, <2>11 DEF vars, withdrawal, platform
  <2> QED
    BY <2>1, <2>2, <2>3, <2>4, <2>5, <2>6, <2>7, <2>8, <2>9, <2>10, <2>11 DEF Next
<1> QED
  BY <1>1, <1>2, SendsAlways, PTL DEF Spec, Withdrawal!Spec, WithdrawalsAreOneShot

(* A run uses the account as BrowserOwnership promises: its reservation is *)
(* the account's one holder until it lapses unbound or the browser bound   *)
(* to it is disposed, and the run that had it never has it again.          *)
THEOREM SendUsesTheAccountExclusively == Spec => UsesTheAccountExclusively
<1> DEFINE live == {r \in Runs : session[r] = "live"}
           gone == {r \in Runs : pc[r] \notin {"idle", "planned"} /\ Holder # r}
           held == [a \in Account |-> Holder]
<1>1. Init => Exclusion!Init
  BY DEF Init, Exclusion!Init, Holder
<1>2. Sends /\ [Next]_vars => [Exclusion!CoarseNext]_(Exclusion!vars)
  <2> SUFFICES ASSUME Sends, [Next]_vars PROVE [Exclusion!CoarseNext]_(Exclusion!vars)
    OBVIOUS
  <2> USE DEF Sends
  <2>0. /\ \A r \in Runs : session[r] # "none" => Holder = r
        /\ \A r \in gone : r \notin live /\ ~Exclusion!Holds(r)
        /\ Holder \in Runs \cup {None}
    BY NoneAssumption DEF Gates, Holder, Exclusion!Holds, Account, TypeOK
  <2>1. ASSUME Holder' = Holder, live' = live
        PROVE  [Exclusion!CoarseNext]_(Exclusion!vars)
    <3>1. gone \subseteq gone'
      BY <2>1, RunsGoOn DEF Started
    <3>2. \A r \in gone' \ gone : r \in Runs \ live /\ ~Exclusion!Holds(r)
      BY <2>0, <2>1 DEF Exclusion!Holds, Account
    <3>3. Exclusion!Retire
      BY <2>1, <3>1, <3>2 DEF Exclusion!Retire
    <3> QED
      BY <3>3 DEF Exclusion!CoarseNext
  <2>2. ASSUME NEW r \in Runs, Reserve(r) PROVE Exclusion!CoarseNext
    <3>1. /\ Holder = None /\ Holder' = r /\ live' = live /\ pc[r] = "planned"
          /\ pc' = [pc EXCEPT ![r] = "reserved"]
      BY <2>2, NoneAssumption DEF Reserve, Free, Holder, Goto, runner, TypeOK
    <3>2. gone' = gone /\ r \notin gone
      BY <3>1, NoneAssumption DEF TypeOK
    <3>3. Exclusion!Acquire(r, "account")
      BY <3>1, <3>2 DEF Exclusion!Acquire, Account
    <3> QED
      BY <3>3 DEF Exclusion!CoarseNext, Exclusion!Next, Account
  <2>3. ASSUME NEW r \in Runs, Open(r) PROVE Exclusion!CoarseNext
    <3>1. /\ Holder = r /\ Holder' = r /\ live' = live \cup {r} /\ pc[r] = "reserved"
          /\ pc' = [pc EXCEPT ![r] = "open"]
      BY <2>3 DEF Open, Holds, Holder, Goto, TypeOK
    <3>2. gone' = gone /\ r \notin gone
      BY <3>1 DEF TypeOK
    <3>3. Exclusion!Open(r)
      BY <3>1, <3>2 DEF Exclusion!Open, Exclusion!Holds, Account
    <3> QED
      BY <3>3 DEF Exclusion!CoarseNext, Exclusion!Next
  <2>4. ASSUME NEW r \in Runs, Holder = r, Holder' = None, live' = live, r \notin live, Started(r)',
               \A o \in Runs : o # r => (Started(o)' <=> Started(o))
        PROVE  Exclusion!CoarseNext
    <3>1. gone' = gone \cup {r}
      BY <2>4, NoneAssumption DEF Started
    <3>2. held' = [a \in Account |-> IF held[a] = r THEN None ELSE held[a]]
      BY <2>4
    <3>3. Exclusion!Release(r)
      BY <2>4, <3>1, <3>2 DEF Exclusion!Release
    <3> QED
      BY <3>3 DEF Exclusion!CoarseNext, Exclusion!Next
  <2>5. CASE Lapse
    <3>1. /\ holder \in Runs /\ ~lapsed /\ lapsed' = TRUE
          /\ UNCHANGED <<holder, bound, pc, session>>
      BY <2>5 DEF Lapse, run, runner, TypeOK
    <3>2. CASE bound
      BY <2>1, <3>1, <3>2 DEF Holder
    <3>3. CASE ~bound
      <4>1. Holder = holder /\ Holder' = None /\ live' = live
        BY <3>1, <3>3 DEF Holder
      <4>2. holder \notin live /\ Started(holder)'
        BY <3>1, <3>3, NoneAssumption DEF Gates, Reserved, Started
      <4> QED
        BY <2>4, <3>1, <4>1, <4>2 DEF Started
    <3> QED
      BY <3>2, <3>3
  <2>6. ASSUME NEW r \in Runs, GiveUp(r) PROVE [Exclusion!CoarseNext]_(Exclusion!vars)
    <3>1. /\ live' = live
          /\ pc' = [pc EXCEPT ![r] = "done"]
          /\ IF bound THEN UNCHANGED gate ELSE Release(r)
      BY <2>6 DEF GiveUp, Goto, runner
    <3>2. CASE bound \/ holder # r
      BY <2>1, <3>1, <3>2 DEF Release, gate, Holder
    <3>3. CASE ~bound /\ holder = r /\ lapsed
      BY <2>1, <3>1, <3>3 DEF Release, Holder
    <3>4. CASE ~bound /\ holder = r /\ ~lapsed
      <4>1. Holder = r /\ Holder' = None
        BY <3>1, <3>4 DEF Release, Holder
      <4>2. r \notin live
        BY <3>4 DEF Gates
      <4>3. Started(r)' /\ \A o \in Runs : o # r => (Started(o)' <=> Started(o))
        BY <3>1 DEF Started, TypeOK
      <4> QED
        BY <2>4, <3>1, <4>1, <4>2, <4>3
    <3> QED
      BY <3>2, <3>3, <3>4 DEF TypeOK
  <2>7. ASSUME NEW r \in Runs, Dispose(r), Started(r),
               \A o \in Runs : o # r => pc'[o] = pc[o]
        PROVE  Exclusion!CoarseNext
    <3>1. holder = r /\ bound /\ Holder = r /\ Holder' = None /\ live' = live \ {r}
      BY <2>7 DEF Dispose, Release, Gates, Holder, TypeOK
    <3>2. Started(r)'
      BY <2>7, RunsGoOn
    <3>3. gone' = gone \cup {r}
      BY <2>7, <3>1, <3>2, NoneAssumption DEF Started
    <3>4. held' = [a \in Account |-> IF held[a] = r THEN None ELSE held[a]]
      BY <3>1
    <3>5. Exclusion!CloseAndRelease(r)
      BY <3>1, <3>3, <3>4 DEF Exclusion!CloseAndRelease
    <3> QED
      BY <3>5 DEF Exclusion!CoarseNext
  <2>8. ASSUME NEW r \in Runs, Abandon(r) \/ CloseBrowser(r) \/ Reconcile(r)
        PROVE  [Exclusion!CoarseNext]_(Exclusion!vars)
    <3>1. CASE Dispose(r)
      <4>1. Started(r)
        BY <3>1, NoneAssumption DEF Dispose, Gates, Reserved
      <4>2. \A o \in Runs : o # r => pc'[o] = pc[o]
        BY <2>8 DEF Abandon, CloseBrowser, Reconcile, Goto, run, TypeOK
      <4> QED
        BY <2>7, <3>1, <4>1, <4>2
    <3>2. CASE UNCHANGED <<gate, runner>>
      BY <2>1, <3>2 DEF gate, runner, Holder
    <3> QED
      BY <2>8, <3>1, <3>2 DEF Abandon, CloseBrowser, Reconcile, Close
  <2>9. ASSUME live' \subseteq live, UNCHANGED <<pc, holder, bound, lapsed>>
        PROVE  Exclusion!CoarseNext
    <3>1. Exclusion!Close
      BY <2>9 DEF Exclusion!Close, Holder
    <3> QED
      BY <3>1 DEF Exclusion!CoarseNext, Exclusion!Next
  <2>10. ASSUME NEW r \in Runs, RunnerCloses(r) PROVE Exclusion!CoarseNext
    BY <2>9, <2>10 DEF RunnerCloses, gate, run, TypeOK
  <2>11. CASE RunnerRestart
    BY <2>9, <2>11 DEF RunnerRestart, gate, run, TypeOK
  <2>12. ASSUME NEW r \in Runs, Plan(r) \/ Claim(r) \/ ClaimWithdrawal(r) \/ Dispatch(r) \/
               FailBeforeSending(r) \/ Accept(r) \/ Refuse(r) \/ Ask(r) \/ Authorize(r) \/
               Deny(r) \/ Upload(r) \/ Act(r) \/ Answer(r) \/ RunOver(r) \/ Receive(r) \/
               TimeOut(r) \/ Finish(r) \/ FinishWithdrawal(r) \/ Crash(r)
        PROVE  UNCHANGED <<holder, bound, lapsed, session>>
    BY <2>12 DEF Accept, Act, Submits, Answer, Ask, Authorize, Claim, ClaimWithdrawal, Crash, Deny, Dispatch,
       FailBeforeSending, Finish, FinishWithdrawal, Plan, Receive, Refuse, RunOver, TimeOut,
       Upload, gate, runner
  <2>13. ASSUME NEW t \in Targets, Resolve(t) \/ Expire(t) \/ Deadline(t) \/ Revoke(t)
         PROVE  UNCHANGED <<holder, bound, lapsed, session>>
    BY <2>13 DEF Deadline, Expire, Resolve, Revoke, gate, runner
  <2>14. CASE PauseOrResume
    BY <2>1, <2>14 DEF PauseOrResume, gate, runner, Holder
  <2>15. CASE UNCHANGED vars
    BY <2>1, <2>15 DEF vars, gate, runner, Holder
  <2>16. ASSUME UNCHANGED <<holder, bound, lapsed, session>>
         PROVE  [Exclusion!CoarseNext]_(Exclusion!vars)
    BY <2>1, <2>16 DEF Holder
  <2> QED
    BY <2>2, <2>3, <2>5, <2>6, <2>8, <2>10, <2>11, <2>12, <2>13, <2>14, <2>15, <2>16 DEF Next
<1> QED
  BY <1>1, <1>2, SendsAlways, PTL DEF Spec, Exclusion!CoarseSpec, UsesTheAccountExclusively
=============================================================================
