---------------------- MODULE ProviderConversationsProofs --------------------
(***************************************************************************)
(* Proofs about ProviderConversations, for any number of conversations,    *)
(* cleanups and recoveries.  The invariant says what a granted deletion    *)
(* relies on while the runner works on it, whatever becomes of the         *)
(* execution that asked for it: the account is still its own, and whoever  *)
(* gets the lease after it only looks.                                     *)
(***************************************************************************)
EXTENDS ProviderConversations, TLAPS

(* Who leases a cleanup is about it, and a fresh lease is about nothing.   *)
LeaseOK ==
    /\ \A c \in Conversations :
           /\ row[c] = "running" <=> lease[c] # None
           /\ lease[c] # None => about[lease[c]] = c
    /\ \A w \in Workers :
           /\ IF pc[w] = "fresh" THEN about[w] = None ELSE about[w] \in Conversations
           /\ pc[w] \notin {"reporting", "ended"} => result[w] = "none"
    /\ \A r \in Readers :
           /\ result[r] \in {"none"} \union RecoveryOutcomes
           /\ pc[r] = "reporting" => result[r] # "none"

(* A browser belongs to whoever has the account, and a call of the runner  *)
(* that is not over keeps it.                                              *)
Asking == {"called"} \union Busy
Opened == {"browsing", "asking", "saving", "reporting", "ended"}

AccountOK ==
    /\ \A w \in browser : holder = w /\ pc[w] \in Opened
    /\ \A e \in Cleaners :
           /\ rpc[e] # "none" => pc[e] \in {"asking", "reporting", "ended"}
           /\ rpc[e] \in Busy => e \in browser
           /\ rpc[e] \in Asking => result[e] \in {"none", "unknown"}

(* What was granted stays true while the runner works on it.  If the lease *)
(* goes to another execution, that one will but look, and cannot yet.      *)
GrantOK ==
    \A d \in Cleaners : rpc[d] \in {"granted", "sent"} =>
        /\ action[d] = "delete" /\ inventory[about[d]] # None /\ ~open
        /\ rpc[d] = "granted" => about[d] \notin doubt
        /\ row[about[d]] \in {"running", "unknown", "needs_login"}
        /\ \A e \in Cleaners \ {d} : lease[about[d]] = e =>
               /\ action[e] = "reconcile" /\ rpc[e] \in {"none", "called"}
               /\ result[e] \notin {"present", "deleted"}

(* What a row or its lease lets a deletion follow has none in doubt.       *)
DoubtOK ==
    \A c \in Conversations :
        /\ row[c] \in {"none", "pending", "failed"} => c \notin doubt
        /\ \A e \in Cleaners : lease[c] = e =>
               /\ \/ action[e] = "delete" /\ rpc[e] \in {"none", "called", "asked", "granted", "retained"}
                  \/ rpc[e] = "present"
                  => c \notin doubt
               /\ result[e] = "failed" /\ action[e] = "delete" => rpc[e] \in {"none", "retained"}
               /\ result[e] = "present" => rpc[e] = "present"

(* What counts as a deletion was one.                                      *)
OutcomeOK ==
    /\ boundary \subseteq asked
    /\ \A c \in asked : inventory[c] # None
    /\ \A c \in Conversations : row[c] = "deleted" => c \in asked \ present
    /\ \A e \in Cleaners :
           /\ rpc[e] \in {"sent", "cut"} \/ result[e] = "cut" \/ e \in prior => about[e] \in asked
           /\ rpc[e] = "deleted" \/ result[e] = "deleted" => about[e] \in asked \ present
           /\ rpc[e] = "absent" => about[e] \notin present

Kept == TypeOK /\ LeaseOK /\ AccountOK /\ GrantOK /\ DoubtOK /\ OutcomeOK

LEMMA InitKept == Init => Kept
<1> SUFFICES ASSUME Init PROVE Kept
  OBVIOUS
<1> USE ConversationAssumption DEF Init
<1>1. TypeOK
  BY DEF TypeOK, Rows, Jobs, Phases, Workers
<1>2. LeaseOK /\ AccountOK
  BY DEF LeaseOK, AccountOK, Asking, Busy, Workers
<1>3. GrantOK /\ DoubtOK /\ OutcomeOK
  BY DEF GrantOK, DoubtOK, OutcomeOK, Workers
<1> QED
  BY <1>1, <1>2, <1>3 DEF Kept

-----------------------------------------------------------------------------
(* The queues.  A claim after a grant is one that only looks.              *)

LEMMA EnqueueCleanupKept ==
  ASSUME Kept, NEW c \in Conversations, EnqueueCleanup(c)
  PROVE  Kept'
<1> USE ConversationAssumption
    DEF Kept, EnqueueCleanup, recovery, account, attempts, claims, provider, history
<1>1. TypeOK'
  BY DEF TypeOK, Rows
<1>2. LeaseOK'
  BY DEF LeaseOK
<1>3. GrantOK'
  BY DEF GrantOK
<1>4. DoubtOK'
  BY DEF DoubtOK
<1>5. OutcomeOK'
  BY DEF OutcomeOK
<1>6. AccountOK'
  BY DEF AccountOK
<1> QED
  BY <1>1, <1>2, <1>3, <1>4, <1>5, <1>6

LEMMA ClaimCleanupKept ==
  ASSUME Kept, NEW c \in Conversations, NEW e \in Cleaners, ClaimCleanup(c, e)
  PROVE  Kept'
<1> USE ConversationAssumption
    DEF Kept, ClaimCleanup, Moves, Leasable, Action, recovery, account, attempts, provider,
        history
<1>1. TypeOK'
  BY DEF TypeOK, Rows, Phases
<1>2. LeaseOK'
  BY DEF LeaseOK, TypeOK, Workers
<1>3. AccountOK'
  BY DEF AccountOK, Opened
<1>4. GrantOK'
  BY DEF GrantOK, TypeOK, LeaseOK, AccountOK, Workers
<1>5. DoubtOK'
  BY DEF TypeOK, LeaseOK, AccountOK, DoubtOK, Workers, Rows
<1>6. OutcomeOK'
  BY DEF OutcomeOK, TypeOK, LeaseOK, AccountOK, Workers
<1> QED
  BY <1>1, <1>2, <1>3, <1>4, <1>5, <1>6

LEMMA FinishCleanupKept ==
  ASSUME Kept, NEW e \in Cleaners, FinishCleanup(e)
  PROVE  Kept'
<1> USE ConversationAssumption
    DEF Kept, FinishCleanup, Moves, Forgets, NextState, recovery, account, attempts, claims, provider,
        history
<1>1. TypeOK'
  BY DEF TypeOK, LeaseOK, Rows, Phases, Workers
<1>2. LeaseOK'
  BY DEF LeaseOK, TypeOK, Workers
<1>3. AccountOK'
  BY DEF AccountOK, Opened, TypeOK, Workers
<1>4. GrantOK'
  BY DEF GrantOK, AccountOK, Busy, Workers, Asking, TypeOK
<1>5. DoubtOK'
  BY DEF DoubtOK, Workers, TypeOK
<1>6. OutcomeOK'
  BY DEF OutcomeOK, TypeOK, Workers
<1> QED
  BY <1>1, <1>2, <1>3, <1>4, <1>5, <1>6

LEMMA EnqueueRecoveryKept ==
  ASSUME Kept, NEW c \in Conversations, EnqueueRecovery(c)
  PROVE  Kept'
<1> USE ConversationAssumption
    DEF Kept, EnqueueRecovery, queue, account, attempts, claims, provider, history
<1>1. TypeOK'
  BY DEF TypeOK, Jobs
<1>2. LeaseOK' /\ AccountOK' /\ GrantOK' /\ DoubtOK' /\ OutcomeOK'
  BY DEF LeaseOK, AccountOK, GrantOK, DoubtOK, OutcomeOK
<1> QED
  BY <1>1, <1>2

LEMMA ClaimRecoveryKept ==
  ASSUME Kept, NEW c \in Conversations, NEW r \in Readers, ClaimRecovery(c, r)
  PROVE  Kept'
<1> USE ConversationAssumption
    DEF Kept, ClaimRecovery, Moves, Leasable, queue, account, attempts, provider, history
<1>1. TypeOK'
  BY DEF TypeOK, Jobs, Phases
<1>2. LeaseOK'
  BY DEF LeaseOK, TypeOK, Workers
<1>3. AccountOK'
  BY DEF AccountOK, TypeOK, Workers, Opened
<1>4. GrantOK'
  BY DEF GrantOK, TypeOK, Workers
<1>5. OutcomeOK'
  BY DEF OutcomeOK, TypeOK, Workers
<1>6. DoubtOK'
  BY DEF DoubtOK
<1> QED
  BY <1>1, <1>2, <1>3, <1>4, <1>5, <1>6

LEMMA FinishRecoveryKept ==
  ASSUME Kept, NEW r \in Readers, FinishRecovery(r)
  PROVE  Kept'
<1> USE ConversationAssumption
    DEF Kept, FinishRecovery, Moves, Forgets, queue, account, attempts, claims, provider, history
<1>1. TypeOK'
  BY DEF TypeOK, LeaseOK, Jobs, Phases, RecoveryOutcomes
<1>2. LeaseOK'
  BY DEF LeaseOK, TypeOK, Workers
<1>3. AccountOK'
  BY DEF AccountOK, Opened, TypeOK, Workers
<1>4. GrantOK' /\ DoubtOK' /\ OutcomeOK'
  BY DEF GrantOK, DoubtOK, OutcomeOK, TypeOK, Workers
<1> QED
  BY <1>1, <1>2, <1>3, <1>4

LEMMA FinishFailsKept ==
  ASSUME Kept, NEW w \in Workers, FinishFails(w)
  PROVE  Kept'
<1> USE ConversationAssumption
    DEF Kept, FinishFails, Moves, Forgets, queue, recovery, account, attempts, claims, provider, history
<1>1. TypeOK'
  BY DEF TypeOK, Phases
<1>2. LeaseOK'
  BY DEF LeaseOK, TypeOK, Workers
<1>3. AccountOK'
  BY DEF AccountOK, Opened, TypeOK, Workers
<1>4. GrantOK' /\ DoubtOK' /\ OutcomeOK'
  BY DEF GrantOK, DoubtOK, OutcomeOK, TypeOK, Workers
<1> QED
  BY <1>1, <1>2, <1>3, <1>4

-----------------------------------------------------------------------------
(* Executions.                                                             *)

LEMMA ReserveKept ==
  ASSUME Kept, NEW w \in Workers, Reserve(w)
  PROVE  Kept'
<1> USE ConversationAssumption
    DEF Kept, Reserve, Moves, queue, recovery, attempts, claims, provider, history
<1>1. TypeOK'
  BY DEF TypeOK, Phases
<1>2. LeaseOK'
  BY DEF LeaseOK
<1>3. AccountOK'
  BY DEF AccountOK, TypeOK
<1>4. GrantOK' /\ DoubtOK' /\ OutcomeOK'
  BY DEF GrantOK, DoubtOK, OutcomeOK, Workers
<1> QED
  BY <1>1, <1>2, <1>3, <1>4

LEMMA RecheckKept ==
  ASSUME Kept, NEW e \in Cleaners, Recheck(e)
  PROVE  Kept'
<1> USE ConversationAssumption
    DEF Kept, Recheck, Moves, Authorized, queue, recovery, account, attempts, claims, provider,
        history
<1>1. TypeOK'
  BY DEF TypeOK, Phases
<1>2. LeaseOK'
  BY DEF LeaseOK
<1>3. AccountOK'
  BY DEF AccountOK, Opened
<1>4. GrantOK' /\ DoubtOK' /\ OutcomeOK'
  BY DEF GrantOK, DoubtOK, OutcomeOK, Workers
<1> QED
  BY <1>1, <1>2, <1>3, <1>4

LEMMA DeclineKept ==
  ASSUME Kept, NEW w \in Workers, Decline(w)
  PROVE  Kept'
<1> USE ConversationAssumption
    DEF Kept, Decline, Concludes, Prepared, queue, recovery, attempts, claims, provider, history
<1>1. TypeOK'
  BY DEF TypeOK, Phases, CleanupOutcomes, RecoveryOutcomes
<1>2. LeaseOK'
  BY DEF TypeOK, LeaseOK, Workers, RecoveryOutcomes
<1>3. AccountOK'
  BY DEF AccountOK, TypeOK, Workers, Asking, Opened
<1>4. GrantOK'
  BY DEF GrantOK, TypeOK, Workers
<1>5. DoubtOK'
  BY DEF DoubtOK, TypeOK, AccountOK, Workers
<1>6. OutcomeOK'
  BY DEF OutcomeOK, TypeOK, Workers
<1> QED
  BY <1>1, <1>2, <1>3, <1>4, <1>5, <1>6

LEMMA OpenBrowserKept ==
  ASSUME Kept, NEW w \in Workers, OpenBrowser(w)
  PROVE  Kept'
<1> USE ConversationAssumption
    DEF Kept, OpenBrowser, Concludes, queue, recovery, attempts, claims, provider, history
<1>1. TypeOK'
  BY DEF TypeOK, Phases, CleanupOutcomes, RecoveryOutcomes
<1>2. LeaseOK'
  BY DEF TypeOK, LeaseOK, Workers, RecoveryOutcomes
<1>3. AccountOK'
  BY DEF AccountOK, TypeOK, Workers, Opened
<1>4. GrantOK'
  BY DEF GrantOK, TypeOK, Workers
<1>5. DoubtOK'
  BY DEF DoubtOK, TypeOK, Workers
<1>6. OutcomeOK'
  BY DEF OutcomeOK, TypeOK, Workers
<1> QED
  BY <1>1, <1>2, <1>3, <1>4, <1>5, <1>6

LEMMA GiveUpKept ==
  ASSUME Kept, NEW w \in Workers, GiveUp(w)
  PROVE  Kept'
<1> USE ConversationAssumption
    DEF Kept, GiveUp, Concludes, queue, recovery, account, attempts, claims, provider, history
<1>1. TypeOK'
  BY DEF TypeOK, Phases, CleanupOutcomes, RecoveryOutcomes
<1>2. LeaseOK'
  BY DEF TypeOK, LeaseOK, Workers, RecoveryOutcomes
<1>3. AccountOK'
  BY DEF AccountOK, TypeOK, Busy, Workers, Asking, Opened
<1>4. GrantOK'
  BY DEF GrantOK, TypeOK, Workers
<1>5. DoubtOK'
  BY DEF DoubtOK, TypeOK, AccountOK, Workers
<1>6. OutcomeOK'
  BY DEF OutcomeOK, TypeOK, Workers
<1> QED
  BY <1>1, <1>2, <1>3, <1>4, <1>5, <1>6

LEMMA AskRunnerKept ==
  ASSUME Kept, NEW e \in Cleaners, AskRunner(e)
  PROVE  Kept'
<1> USE ConversationAssumption
    DEF Kept, AskRunner, Moves, queue, recovery, account, attempts, claims, provider, history
<1>1. TypeOK'
  BY DEF TypeOK, Phases
<1>2. LeaseOK'
  BY DEF LeaseOK
<1>3. AccountOK'
  BY DEF AccountOK, TypeOK, LeaseOK, Busy, Workers, Opened
<1>4. GrantOK'
  BY DEF GrantOK
<1>5. DoubtOK'
  BY DEF DoubtOK, LeaseOK, AccountOK, Workers
<1>6. OutcomeOK'
  BY DEF OutcomeOK
<1> QED
  BY <1>1, <1>2, <1>3, <1>4, <1>5, <1>6

LEMMA TakeAnswerKept ==
  ASSUME Kept, NEW e \in Cleaners, TakeAnswer(e)
  PROVE  Kept'
<1> USE ConversationAssumption
    DEF Kept, TakeAnswer, Concludes, Outcome, queue, recovery, account, attempts, claims,
        provider, history
<1>1. TypeOK'
  BY DEF TypeOK, Phases, CleanupOutcomes
<1>2. LeaseOK'
  BY DEF LeaseOK, TypeOK
<1>3. AccountOK'
  BY DEF AccountOK, Busy, Asking, Opened
<1>4. GrantOK'
  BY DEF GrantOK
<1>5. DoubtOK'
  BY DEF DoubtOK
<1>6. OutcomeOK'
  BY DEF OutcomeOK
<1> QED
  BY <1>1, <1>2, <1>3, <1>4, <1>5, <1>6

LEMMA StopWaitingKept ==
  ASSUME Kept, NEW e \in Cleaners, StopWaiting(e)
  PROVE  Kept'
<1> USE ConversationAssumption
    DEF Kept, StopWaiting, Concludes, queue, recovery, account, attempts, claims, provider,
        history
<1>1. TypeOK'
  BY DEF TypeOK, Phases, CleanupOutcomes
<1>2. LeaseOK'
  BY DEF LeaseOK, TypeOK
<1>3. AccountOK'
  BY DEF AccountOK, Opened
<1>4. GrantOK'
  BY DEF GrantOK
<1>5. DoubtOK'
  BY DEF DoubtOK
<1>6. OutcomeOK'
  BY DEF OutcomeOK
<1> QED
  BY <1>1, <1>2, <1>3, <1>4, <1>5, <1>6

LEMMA ReadHistoryKept ==
  ASSUME Kept, NEW r \in Readers, ReadHistory(r)
  PROVE  Kept'
<1> USE ConversationAssumption
    DEF Kept, ReadHistory, Moves, queue, recovery, account, attempts, claims, provider, history
<1>1. TypeOK'
  BY DEF TypeOK, Phases
<1>2. LeaseOK'
  BY DEF LeaseOK
<1>3. AccountOK'
  BY DEF AccountOK, Opened
<1>4. GrantOK' /\ DoubtOK' /\ OutcomeOK'
  BY DEF GrantOK, DoubtOK, OutcomeOK, Workers
<1> QED
  BY <1>1, <1>2, <1>3, <1>4

LEMMA SaveEvidenceKept ==
  ASSUME Kept, NEW r \in Readers, SaveEvidence(r)
  PROVE  Kept'
<1> USE ConversationAssumption
    DEF Kept, SaveEvidence, Concludes, queue, account, attempts, claims, provider, history
<1>1. TypeOK'
  BY DEF TypeOK, Phases, RecoveryOutcomes
<1>2. LeaseOK'
  BY DEF TypeOK, LeaseOK, Workers, RecoveryOutcomes
<1>3. AccountOK'
  BY DEF AccountOK, TypeOK, Workers, Opened
<1>4. GrantOK'
  BY DEF GrantOK, TypeOK, LeaseOK, AccountOK, Workers
<1>5. DoubtOK'
  BY DEF DoubtOK, TypeOK, Workers
<1>6. OutcomeOK'
  BY DEF OutcomeOK, TypeOK, Workers
<1> QED
  BY <1>1, <1>2, <1>3, <1>4, <1>5, <1>6

LEMMA DisposeKept ==
  ASSUME Kept, NEW w \in Workers, Dispose(w)
  PROVE  Kept'
<1> USE ConversationAssumption
    DEF Kept, Dispose, queue, recovery, attempts, claims, provider, history
<1>1. TypeOK'
  BY DEF TypeOK
<1>2. AccountOK'
  BY DEF AccountOK
<1>3. LeaseOK' /\ GrantOK' /\ DoubtOK' /\ OutcomeOK'
  BY DEF LeaseOK, GrantOK, DoubtOK, OutcomeOK
<1> QED
  BY <1>1, <1>2, <1>3

LEMMA VacateKept ==
  ASSUME Kept, NEW w \in Workers, Vacate(w)
  PROVE  Kept'
<1> USE ConversationAssumption
    DEF Kept, Vacate, Unbound, queue, recovery, attempts, claims, provider, history
<1>1. TypeOK'
  BY DEF TypeOK
<1>2. AccountOK'
  BY DEF AccountOK
<1>3. LeaseOK' /\ GrantOK' /\ DoubtOK' /\ OutcomeOK'
  BY DEF LeaseOK, GrantOK, DoubtOK, OutcomeOK
<1> QED
  BY <1>1, <1>2, <1>3

-----------------------------------------------------------------------------
(* The runner.  Whoever is granted a deletion has the only browser, so no  *)
(* other deletion comes between the grant and the request.                 *)

LEMMA AcceptCallKept ==
  ASSUME Kept, NEW e \in Cleaners, AcceptCall(e)
  PROVE  Kept'
<1> USE ConversationAssumption
    DEF Kept, AcceptCall, RunnerStep, queue, recovery, account, attempts, claims, provider,
        history
<1>1. TypeOK'
  BY DEF TypeOK, Busy
<1>2. AccountOK'
  BY DEF AccountOK, Asking
<1>3. GrantOK'
  BY DEF GrantOK, AccountOK, Busy
<1>4. DoubtOK'
  BY DEF DoubtOK
<1>5. OutcomeOK'
  BY DEF OutcomeOK
<1>6. LeaseOK'
  BY DEF LeaseOK
<1> QED
  BY <1>1, <1>2, <1>3, <1>4, <1>5, <1>6

LEMMA GrantDeletionKept ==
  ASSUME Kept, NEW e \in Cleaners, GrantDeletion(e)
  PROVE  Kept'
<1> USE ConversationAssumption
    DEF Kept, GrantDeletion, RunnerStep, Subject, Authorized, queue, recovery, account,
        attempts, claims, provider, history
<1>1. TypeOK'
  BY DEF TypeOK, Busy
<1>2. AccountOK'
  BY DEF AccountOK, Busy, Asking
<1>3. GrantOK'
  BY DEF TypeOK, LeaseOK, GrantOK, DoubtOK, Workers
<1>4. DoubtOK'
  BY DEF DoubtOK
<1>5. OutcomeOK'
  BY DEF OutcomeOK
<1>6. LeaseOK'
  BY DEF LeaseOK
<1> QED
  BY <1>1, <1>2, <1>3, <1>4, <1>5, <1>6

LEMMA SendDeletionKept ==
  ASSUME Kept, NEW e \in Cleaners, SendDeletion(e)
  PROVE  Kept'
<1> USE ConversationAssumption
    DEF Kept, SendDeletion, RunnerStep, Subject, queue, recovery, account, attempts, claims
<1>1. TypeOK'
  BY DEF TypeOK, LeaseOK, AccountOK, Busy
<1>2. AccountOK'
  BY DEF AccountOK, Busy, Asking
<1>3. GrantOK'
  BY DEF GrantOK, TypeOK, AccountOK, Busy
<1>4. DoubtOK'
  BY DEF TypeOK, GrantOK, DoubtOK
<1>5. OutcomeOK'
  BY DEF GrantOK, OutcomeOK
<1>6. LeaseOK'
  BY DEF LeaseOK
<1> QED
  BY <1>1, <1>2, <1>3, <1>4, <1>5, <1>6

LEMMA AnswerDeletionKept ==
  ASSUME Kept, NEW e \in Cleaners, AnswerDeletion(e)
  PROVE  Kept'
<1> USE ConversationAssumption
    DEF Kept, AnswerDeletion, RunnerStep, Subject, queue, recovery, account, attempts, claims,
        provider, history
<1>1. TypeOK'
  BY DEF TypeOK, Answers
<1>2. AccountOK'
  BY DEF AccountOK, TypeOK, Busy, Asking
<1>3. GrantOK'
  BY DEF GrantOK, TypeOK
<1>4. DoubtOK'
  BY DEF DoubtOK, TypeOK
<1>5. OutcomeOK'
  BY DEF OutcomeOK, TypeOK
<1>6. LeaseOK'
  BY DEF LeaseOK
<1> QED
  BY <1>1, <1>2, <1>3, <1>4, <1>5, <1>6

LEMMA AnswerLookKept ==
  ASSUME Kept, NEW e \in Cleaners, AnswerLook(e)
  PROVE  Kept'
<1> USE ConversationAssumption
    DEF Kept, AnswerLook, Subject, queue, recovery, account, attempts, claims, provider
<1>1. TypeOK'
  BY DEF TypeOK, Answers
<1>2. AccountOK'
  BY DEF AccountOK, Busy, Asking
<1>3. GrantOK'
  BY DEF GrantOK
<1>4. DoubtOK'
  BY DEF DoubtOK, LeaseOK, Workers
<1>5. OutcomeOK'
  BY DEF OutcomeOK
<1>6. LeaseOK'
  BY DEF LeaseOK
<1> QED
  BY <1>1, <1>2, <1>3, <1>4, <1>5, <1>6

-----------------------------------------------------------------------------
(* What goes on around them takes back neither a grant nor a deletion.     *)

LEMMA CarryOutKept ==
  ASSUME Kept, NEW c \in Conversations, CarryOut(c)
  PROVE  Kept'
<1> USE ConversationAssumption
    DEF Kept, CarryOut, queue, recovery, account, attempts, claims, history
<1>1. TypeOK'
  BY DEF TypeOK
<1>2. OutcomeOK'
  BY DEF OutcomeOK
<1>3. LeaseOK' /\ AccountOK' /\ GrantOK' /\ DoubtOK'
  BY DEF LeaseOK, AccountOK, GrantOK, DoubtOK
<1> QED
  BY <1>1, <1>2, <1>3

LEMMA DeleteByHandKept ==
  ASSUME Kept, NEW c \in Conversations, DeleteByHand(c)
  PROVE  Kept'
<1> USE ConversationAssumption
    DEF Kept, DeleteByHand, queue, recovery, account, attempts, claims, history
<1>1. TypeOK'
  BY DEF TypeOK
<1>2. OutcomeOK'
  BY DEF OutcomeOK
<1>3. LeaseOK' /\ AccountOK' /\ GrantOK' /\ DoubtOK'
  BY DEF LeaseOK, AccountOK, GrantOK, DoubtOK
<1> QED
  BY <1>1, <1>2, <1>3

LEMMA BeginMeasurementKept ==
  ASSUME Kept, BeginMeasurement
  PROVE  Kept'
<1> USE ConversationAssumption
    DEF Kept, BeginMeasurement, queue, recovery, claims, provider, history
<1>1. TypeOK'
  BY DEF TypeOK
<1>2. AccountOK'
  BY DEF AccountOK, TypeOK
<1>3. GrantOK'
  BY DEF GrantOK, AccountOK, Busy, Workers
<1>4. LeaseOK' /\ DoubtOK' /\ OutcomeOK'
  BY DEF LeaseOK, DoubtOK, OutcomeOK
<1> QED
  BY <1>1, <1>2, <1>3, <1>4

LEMMA CaptureKept ==
  ASSUME Kept, NEW c \in Conversations, Capture(c)
  PROVE  Kept'
<1> USE ConversationAssumption
    DEF Kept, Capture, queue, recovery, account, claims, provider, history
<1>1. TypeOK'
  BY DEF TypeOK
<1>2. LeaseOK' /\ AccountOK' /\ GrantOK' /\ DoubtOK' /\ OutcomeOK'
  BY DEF LeaseOK, AccountOK, GrantOK, DoubtOK, OutcomeOK
<1> QED
  BY <1>1, <1>2

LEMMA AnswerMeasurementKept ==
  ASSUME Kept, AnswerMeasurement
  PROVE  Kept'
<1> USE ConversationAssumption
    DEF Kept, AnswerMeasurement, queue, recovery, account, claims, provider, history
<1>1. TypeOK'
  BY DEF TypeOK
<1>2. GrantOK'
  BY DEF GrantOK
<1>3. LeaseOK' /\ AccountOK' /\ DoubtOK' /\ OutcomeOK'
  BY DEF LeaseOK, AccountOK, DoubtOK, OutcomeOK
<1> QED
  BY <1>1, <1>2, <1>3

LEMMA LeaveAccountKept ==
  ASSUME Kept, LeaveAccount
  PROVE  Kept'
<1> USE ConversationAssumption
    DEF Kept, LeaveAccount, queue, recovery, attempts, claims, provider, history
<1>1. TypeOK'
  BY DEF TypeOK
<1>2. AccountOK'
  BY DEF AccountOK, TypeOK
<1>3. LeaseOK' /\ GrantOK' /\ DoubtOK' /\ OutcomeOK'
  BY DEF LeaseOK, GrantOK, DoubtOK, OutcomeOK
<1> QED
  BY <1>1, <1>2, <1>3

LEMMA LapseKept ==
  ASSUME Kept, NEW w \in Workers, Lapse(w)
  PROVE  Kept'
<1> USE ConversationAssumption
    DEF Kept, Lapse, queue, recovery, account, attempts, claims, provider, history
<1>1. TypeOK'
  BY DEF TypeOK
<1>2. LeaseOK' /\ AccountOK' /\ GrantOK' /\ DoubtOK' /\ OutcomeOK'
  BY DEF LeaseOK, AccountOK, GrantOK, DoubtOK, OutcomeOK
<1> QED
  BY <1>1, <1>2

LEMMA CrashKept ==
  ASSUME Kept, Crash
  PROVE  Kept'
<1> USE ConversationAssumption
    DEF Kept, Crash, queue, recovery, account, attempts, claims, provider, history
<1>1. TypeOK'
  BY DEF TypeOK, Phases
<1>2. LeaseOK'
  BY DEF LeaseOK, Workers
<1>3. AccountOK'
  BY DEF AccountOK, TypeOK, Workers, Opened
<1>4. GrantOK' /\ DoubtOK' /\ OutcomeOK'
  BY DEF GrantOK, DoubtOK, OutcomeOK, Workers
<1> QED
  BY <1>1, <1>2, <1>3, <1>4

-----------------------------------------------------------------------------
(* The theorems.                                                           *)

LEMMA StepKept == Kept /\ [Next]_vars => Kept'
<1> SUFFICES ASSUME Kept, [Next]_vars PROVE Kept'
  OBVIOUS
<1>1. CASE Queues
  BY <1>1, EnqueueCleanupKept, EnqueueRecoveryKept, ClaimCleanupKept, ClaimRecoveryKept
     DEF Queues
<1>2. CASE Execution
  BY <1>2, ReserveKept, RecheckKept, DeclineKept, OpenBrowserKept, GiveUpKept, AskRunnerKept,
     TakeAnswerKept, StopWaitingKept, ReadHistoryKept, SaveEvidenceKept, FinishFailsKept,
     FinishCleanupKept, FinishRecoveryKept
     DEF Execution
<1>3. CASE Runner
  BY <1>3, AcceptCallKept, GrantDeletionKept, SendDeletionKept, AnswerDeletionKept,
     AnswerLookKept
     DEF Runner
<1>4. CASE Surroundings
  BY <1>4, CarryOutKept, DeleteByHandKept, CaptureKept, DisposeKept, VacateKept, LapseKept,
     BeginMeasurementKept, AnswerMeasurementKept, LeaveAccountKept, CrashKept
     DEF Surroundings
<1>5. CASE UNCHANGED vars
  <2> USE <1>5 DEF vars, queue, recovery, account, attempts, claims, provider, history, Kept
  <2>1. TypeOK' /\ LeaseOK' /\ AccountOK'
    BY DEF TypeOK, LeaseOK, AccountOK
  <2>2. GrantOK' /\ DoubtOK' /\ OutcomeOK'
    BY DEF GrantOK, DoubtOK, OutcomeOK
  <2> QED
    BY <2>1, <2>2
<1> QED
  BY <1>1, <1>2, <1>3, <1>4, <1>5 DEF Next

(* Everything below follows from this.                                     *)
THEOREM Invariance == Spec => []Kept
  BY InitKept, StepKept, PTL DEF Spec

(* The variables always have their types: the two tables, the leases and   *)
(* executions, the runner's calls and the provider's conversations.        *)
THEOREM TypeCorrect == Spec => []TypeOK
<1>1. Kept => TypeOK
  BY DEF Kept
<1> QED
  BY <1>1, Invariance, PTL

(* A deletion is begun only of what is retained, and its execution has the *)
(* account for itself until the runner answers (authorize_delete).         *)
THEOREM DeletionsAreEarned == Spec => []DeletionIsEarned
<1>1. Kept => DeletionIsEarned
  <2> SUFFICES ASSUME Kept PROVE DeletionIsEarned
    OBVIOUS
  <2>1. \A c \in asked : inventory[c] # None
    BY DEF Kept, OutcomeOK
  <2>2. ASSUME NEW e \in Cleaners, rpc[e] = "sent"
        PROVE  holder = e /\ ~open /\ \A w \in browser : w = e
    BY <2>2 DEF Kept, AccountOK, GrantOK, Busy
  <2> QED
    BY <2>1, <2>2 DEF DeletionIsEarned
<1> QED
  BY <1>1, Invariance, PTL

(* A row is settled only if our deletion was begun and the conversation is *)
(* gone (map_outcome).                                                     *)
THEOREM SettlementsAreTrue == Spec => []SettledMeansDeleted
<1>1. Kept => SettledMeansDeleted
  BY DEF Kept, OutcomeOK, SettledMeansDeleted
<1> QED
  BY <1>1, Invariance, PTL

(* The only step that begins a deletion is SendDeletion, after a grant     *)
(* that no deletion came before without a look.                            *)
LEMMA SendsAreGranted ==
  ASSUME Kept, [Next]_vars, NEW e \in Cleaners, rpc[e] # "sent", rpc'[e] = "sent"
  PROVE  about[e] \notin doubt
<1>1. CASE Runner
  <2>1. PICK d \in Cleaners :
            \/ AcceptCall(d) \/ GrantDeletion(d) \/ SendDeletion(d)
            \/ AnswerDeletion(d) \/ AnswerLook(d)
    BY <1>1 DEF Runner
  <2>2. SendDeletion(d) /\ d = e
    BY <2>1
    DEF Kept, TypeOK, AcceptCall, GrantDeletion, SendDeletion, AnswerDeletion, AnswerLook,
        RunnerStep
  <2> QED
    BY <2>2 DEF Kept, GrantOK, SendDeletion, RunnerStep
<1>2. CASE Queues
  BY <1>2
  DEF Queues, EnqueueCleanup, EnqueueRecovery, ClaimCleanup, ClaimRecovery
<1>3. CASE Execution
  BY <1>3
  DEF Execution, Reserve, Decline, OpenBrowser, GiveUp, FinishFails, Recheck, AskRunner,
      TakeAnswer, StopWaiting, FinishCleanup, ReadHistory, SaveEvidence, FinishRecovery,
      Kept, TypeOK
<1>4. CASE Surroundings
  BY <1>4
  DEF Surroundings, CarryOut, DeleteByHand, Capture, Dispose, Vacate, Lapse,
      BeginMeasurement, AnswerMeasurement, LeaveAccount, Crash
<1>5. CASE UNCHANGED vars
  BY <1>5 DEF vars
<1> QED
  BY <1>1, <1>2, <1>3, <1>4, <1>5 DEF Next

(* No step begins a deletion of a conversation of which another deletion   *)
(* was begun and nobody has looked since (claim_selected: reconcile).      *)
THEOREM DeletionsAreNotRepeated == Spec => NoBlindRepeat
<1>1. Kept /\ [Next]_vars =>
          [\A e \in Cleaners :
              rpc[e] # "sent" /\ rpc'[e] = "sent" => about[e] \notin doubt]_vars
  BY SendsAreGranted
<1>2. Spec => [][\A e \in Cleaners :
              rpc[e] # "sent" /\ rpc'[e] = "sent" => about[e] \notin doubt]_vars
  BY <1>1, Invariance, PTL DEF Spec
<1> QED
  BY <1>2 DEF NoBlindRepeat

-----------------------------------------------------------------------------
(* The use of the account                                                  *)

(* Executions that came past their reservation, if they got one.           *)
Begun(w) == pc[w] \notin {"fresh", "claimed"}

LEMMA BegunStays ==
  ASSUME Kept, [Next]_vars, NEW w \in Workers, Begun(w)
  PROVE  Begun(w)'
<1> USE DEF Begun, Kept, TypeOK, Moves, Concludes
<1>1. CASE Queues
  BY <1>1 DEF Queues, EnqueueCleanup, EnqueueRecovery, ClaimCleanup, ClaimRecovery
<1>2. ASSUME NEW v \in Workers,
             Reserve(v) \/ Decline(v) \/ OpenBrowser(v) \/ GiveUp(v) \/ FinishFails(v)
      PROVE  Begun(w)'
  BY <1>2 DEF Reserve, Decline, OpenBrowser, GiveUp, FinishFails
<1>3. ASSUME NEW e \in Cleaners,
             Recheck(e) \/ AskRunner(e) \/ TakeAnswer(e) \/ StopWaiting(e) \/ FinishCleanup(e)
      PROVE  Begun(w)'
  BY <1>3 DEF Recheck, AskRunner, TakeAnswer, StopWaiting, FinishCleanup
<1>4. ASSUME NEW r \in Readers, ReadHistory(r) \/ SaveEvidence(r) \/ FinishRecovery(r)
      PROVE  Begun(w)'
  BY <1>4 DEF ReadHistory, SaveEvidence, FinishRecovery
<1>5. CASE Runner
  BY <1>5
  DEF Runner, AcceptCall, GrantDeletion, SendDeletion, AnswerDeletion, AnswerLook
<1>6. CASE Surroundings
  BY <1>6
  DEF Surroundings, CarryOut, DeleteByHand, Capture, Dispose, Vacate, Lapse,
      BeginMeasurement, AnswerMeasurement, LeaveAccount, Crash
<1>7. CASE UNCHANGED vars
  BY <1>7 DEF vars
<1> QED
  BY <1>1, <1>2, <1>3, <1>4, <1>5, <1>6, <1>7 DEF Next, Execution

(* The steps that leave the account alone.                                 *)
Apart ==
    \/ Queues \/ Runner
    \/ \E w \in Workers : GiveUp(w) \/ FinishFails(w) \/ Lapse(w)
    \/ \E e \in Cleaners :
           Recheck(e) \/ AskRunner(e) \/ TakeAnswer(e) \/ StopWaiting(e) \/ FinishCleanup(e)
    \/ \E r \in Readers : ReadHistory(r) \/ SaveEvidence(r) \/ FinishRecovery(r)
    \/ \E c \in Conversations : CarryOut(c) \/ DeleteByHand(c) \/ Capture(c)
    \/ AnswerMeasurement \/ Crash \/ UNCHANGED vars

LEMMA ApartFromTheAccount == Apart => UNCHANGED account
BY DEF Apart, Queues, EnqueueCleanup, EnqueueRecovery, ClaimCleanup, ClaimRecovery,
       Runner, AcceptCall, GrantDeletion, SendDeletion, AnswerDeletion, AnswerLook,
       GiveUp, FinishFails, Lapse, Recheck, AskRunner, TakeAnswer, StopWaiting, FinishCleanup,
       ReadHistory, SaveEvidence, FinishRecovery, CarryOut, DeleteByHand, Capture,
       AnswerMeasurement, Crash, vars, account

LEMMA NextSplit ==
  [Next]_vars <=>
    \/ Apart
    \/ \E w \in Workers :
           Reserve(w) \/ Decline(w) \/ OpenBrowser(w) \/ Dispose(w) \/ Vacate(w)
    \/ BeginMeasurement \/ LeaveAccount
BY DEF Next, Apart, Execution, Surroundings

(* An execution that has the account came past its reservation.            *)
HolderBegun == holder \in Workers => Begun(holder)

LEMMA HolderBegunKept ==
  ASSUME Kept, HolderBegun, [Next]_vars
  PROVE  HolderBegun'
<1>1. \A w \in Workers : Begun(w) => Begun(w)'
  BY BegunStays
<1>2. CASE holder' = holder
  BY <1>1, <1>2 DEF HolderBegun
<1>3. CASE holder' \in {None, Channel}
  BY <1>3, ConversationAssumption DEF HolderBegun
<1>4. ASSUME NEW w \in Workers, Reserve(w) PROVE HolderBegun'
  BY <1>4 DEF Reserve, Moves, HolderBegun, Begun, Kept, TypeOK
<1> QED
  BY <1>2, <1>3, <1>4, NextSplit, ApartFromTheAccount
  DEF Decline, OpenBrowser, Dispose, Vacate, BeginMeasurement, LeaveAccount, account

(* Cleanups and recoveries use the account as BrowserOwnership promises    *)
(* (reserve_account, open_browser, release_account, the reconciler).       *)
THEOREM ConversationsUseTheAccountExclusively == Spec => UsesTheAccountExclusively
<1> DEFINE gone == {w \in Workers : pc[w] \notin {"fresh", "claimed"} /\ holder # w}
           held == [a \in Account |-> Holder]
<1>1. Init => HolderBegun /\ Exclusion!Init
  BY ConversationAssumption DEF Init, HolderBegun, Exclusion!Init, Holder
<1>2. ASSUME Kept, HolderBegun, [Next]_vars
      PROVE  [Exclusion!CoarseNext]_(Exclusion!vars)
  <2> USE <1>2
  <2>1. /\ \A w \in Workers : Holder = w <=> holder = w
        /\ \A w \in Workers : Holder' = w <=> holder' = w
        /\ \A w \in browser : holder = w /\ w \in Workers
        /\ \A w \in gone : w \notin browser
    BY ConversationAssumption DEF Holder, Kept, AccountOK, TypeOK
  <2>2. ASSUME Holder' = Holder, browser' = browser
        PROVE  [Exclusion!CoarseNext]_(Exclusion!vars)
    <3>1. gone \subseteq gone'
      BY <2>1, <2>2, BegunStays DEF Begun
    <3>2. \A w \in gone' \ gone : w \in Workers \ browser /\ ~Exclusion!Holds(w)
      BY <2>1, <2>2 DEF Exclusion!Holds, Account
    <3>3. Exclusion!Retire
      BY <2>2, <3>1, <3>2 DEF Exclusion!Retire
    <3> QED
      BY <3>3 DEF Exclusion!CoarseNext
  <2>3. ASSUME NEW w \in Workers, holder = w, holder' = None, Begun(w),
               \A o \in Workers : o # w => pc'[o] = pc[o]
        PROVE  /\ gone' = gone \cup {w}
               /\ held' = [a \in Account |-> IF held[a] = w THEN None ELSE held[a]]
    <3>1. Begun(w)'
      BY <2>3, BegunStays
    <3>2. gone' = gone \cup {w}
      BY <2>3, <3>1, ConversationAssumption DEF Begun
    <3>3. Holder = w /\ Holder' = None
      BY <2>1, <2>3, ConversationAssumption DEF Holder
    <3> QED
      BY <3>2, <3>3
  <2>4. CASE Apart
    BY <2>2, <2>4, ApartFromTheAccount DEF account, Holder
  <2>5. ASSUME NEW w \in Workers, Reserve(w) PROVE Exclusion!CoarseNext
    <3>1. /\ holder = None /\ holder' = w /\ pc[w] = "claimed"
          /\ pc' = [pc EXCEPT ![w] = "reserved"] /\ browser' = browser
      BY <2>5 DEF Reserve, Moves
    <3>2. Holder = None /\ Holder' = w
      BY <2>1, <3>1 DEF Holder
    <3>3. gone' = gone /\ w \notin gone
      BY <3>1, ConversationAssumption DEF Kept, TypeOK
    <3>4. Exclusion!Acquire(w, "account")
      BY <3>1, <3>2, <3>3 DEF Exclusion!Acquire, Account
    <3> QED
      BY <3>4 DEF Exclusion!CoarseNext, Exclusion!Next, Account
  <2>6. ASSUME NEW w \in Workers, OpenBrowser(w) PROVE Exclusion!CoarseNext
    <3>1. /\ holder = w /\ holder' = w /\ browser' = browser \cup {w}
          /\ Begun(w) /\ Begun(w)'
          /\ \A o \in Workers : o # w => pc'[o] = pc[o]
      BY <2>6 DEF OpenBrowser, Concludes, Begun, Kept, TypeOK
    <3>2. gone' = gone /\ w \notin gone
      BY <3>1
    <3>3. Exclusion!Open(w)
      BY <2>1, <3>1, <3>2 DEF Exclusion!Open, Exclusion!Holds, Account
    <3> QED
      BY <3>3 DEF Exclusion!CoarseNext, Exclusion!Next
  <2>7. ASSUME NEW w \in Workers, Decline(w) PROVE [Exclusion!CoarseNext]_(Exclusion!vars)
    <3>1. /\ browser' = browser /\ w \notin browser
          /\ holder' = holder \/ (holder = w /\ holder' = None)
          /\ \A o \in Workers : o # w => pc'[o] = pc[o]
      BY <2>7 DEF Decline, Prepared, Concludes, Kept, AccountOK, Opened, TypeOK
    <3>2. CASE holder' = holder
      BY <2>2, <3>1, <3>2 DEF Holder
    <3>3. CASE holder = w /\ holder' = None
      <4>1. Begun(w)
        BY <3>3 DEF HolderBegun
      <4>2. Exclusion!Release(w)
        BY <2>3, <3>1, <3>3, <4>1 DEF Exclusion!Release
      <4> QED
        BY <4>2 DEF Exclusion!CoarseNext, Exclusion!Next
    <3> QED
      BY <3>1, <3>2, <3>3
  <2>8. ASSUME NEW w \in Workers, Vacate(w) PROVE Exclusion!CoarseNext
    <3>1. /\ browser' = browser /\ w \notin browser /\ holder = w /\ holder' = None
          /\ pc' = pc
      BY <2>8 DEF Vacate, Unbound
    <3>2. Begun(w)
      BY <3>1 DEF HolderBegun
    <3>3. Exclusion!Release(w)
      BY <2>3, <3>1, <3>2 DEF Exclusion!Release
    <3> QED
      BY <3>3 DEF Exclusion!CoarseNext, Exclusion!Next
  <2>9. ASSUME NEW w \in Workers, Dispose(w) PROVE Exclusion!CoarseNext
    <3>1. /\ browser' = browser \ {w} /\ holder = w /\ holder' = None /\ pc' = pc
      BY <2>1, <2>9 DEF Dispose
    <3>2. Begun(w)
      BY <3>1 DEF HolderBegun
    <3>3. Exclusion!CloseAndRelease(w)
      BY <2>3, <3>1, <3>2 DEF Exclusion!CloseAndRelease
    <3> QED
      BY <3>3 DEF Exclusion!CoarseNext
  <2>10. CASE BeginMeasurement \/ LeaveAccount
    <3>1. holder \notin Workers /\ holder' \notin Workers /\ browser' = browser
      BY <2>10, ConversationAssumption DEF BeginMeasurement, LeaveAccount
    <3> QED
      BY <2>2, <3>1 DEF Holder
  <2> QED
    BY <2>4, <2>5, <2>6, <2>7, <2>8, <2>9, <2>10, NextSplit
<1>3. Kept /\ HolderBegun /\ [Next]_vars => HolderBegun'
  BY HolderBegunKept
<1> QED
  BY <1>1, <1>2, <1>3, Invariance, PTL
  DEF Spec, Exclusion!CoarseSpec, UsesTheAccountExclusively
=============================================================================
