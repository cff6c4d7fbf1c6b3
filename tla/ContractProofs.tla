---------------------------- MODULE ContractProofs ----------------------------
(***************************************************************************)
(* What the abstract specifications that the modules implement are good    *)
(* for.  The modules are shown to implement them in modules of their own;  *)
(* what follows from a contract alone is proved here once, and holds of    *)
(* the account gate, of the login queue, of sends, withdrawals and tool    *)
(* calls, of the outbox and of lookups, whatever they call their state.    *)
(*                                                                         *)
(* The only assumption is that None is nobody, which every module makes of *)
(* its own ids.                                                            *)
(***************************************************************************)
EXTENDS TLAPS

CONSTANTS None,
          Accounts, Ops,                                   \* of AccountExclusion
          Targets, Runs,                                   \* of OneShotPublication
          Seekers, Publications, Seeks, Withdrawing,       \* of IntentLedger
          Jobs, Claimants                                  \* of FencedWork

VARIABLES holder, open, released, attempt, posts, verdict, link, deferred, creator, stage,
          holding, taken, settled

Gate == INSTANCE AccountExclusion
OneShot == INSTANCE OneShotPublication
Ledger == INSTANCE IntentLedger
Work == INSTANCE FencedWork

-----------------------------------------------------------------------------
(* AccountExclusion                                                        *)

GateTypeOK ==
    /\ holder \in [Accounts -> Ops \cup {None}]
    /\ open \subseteq Ops /\ released \subseteq Ops

Kept == GateTypeOK /\ Gate!Exclusive

(* Nobody keeps a browser without an account, whether the end of a browser *)
(* and its release are one step or two.                                    *)
LEMMA ExclusionStep ==
  ASSUME None \notin Ops, Kept, [Gate!CoarseNext]_(Gate!vars)
  PROVE  Kept' /\ released \subseteq released'
<1> USE DEF Kept, GateTypeOK, Gate!Exclusive, Gate!Holds
<1>1. ASSUME NEW o \in Ops, NEW a \in Accounts, Gate!Acquire(o, a)
      PROVE  Kept' /\ released \subseteq released'
  BY <1>1 DEF Gate!Acquire
<1>2. ASSUME NEW o \in Ops, Gate!Open(o)
      PROVE  Kept' /\ released \subseteq released'
  BY <1>2 DEF Gate!Open
<1>3. CASE Gate!Close
  BY <1>3 DEF Gate!Close
<1>4. ASSUME NEW o \in Ops, Gate!Release(o) \/ Gate!CloseAndRelease(o)
      PROVE  Kept' /\ released \subseteq released'
  <2>1. /\ holder' = [a \in Accounts |-> IF holder[a] = o THEN None ELSE holder[a]]
        /\ released' = released \cup {o}
        /\ open' \subseteq open /\ o \notin open'
    BY <1>4 DEF Gate!Release, Gate!CloseAndRelease
  <2>2. GateTypeOK'
    BY <2>1
  <2>3. \A p \in open' : Gate!Holds(p)'
    BY <2>1
  <2>4. \A p \in released' : p \notin open' /\ ~Gate!Holds(p)'
    <3> SUFFICES ASSUME NEW p \in released' PROVE p \notin open' /\ ~Gate!Holds(p)'
      OBVIOUS
    <3>1. CASE p = o
      BY <2>1, <3>1
    <3>2. CASE p # o
      BY <2>1, <3>2
    <3> QED
      BY <3>1, <3>2
  <2> QED
    BY <2>1, <2>2, <2>3, <2>4
<1>5. CASE Gate!Retire
  BY <1>5 DEF Gate!Retire
<1>6. CASE UNCHANGED Gate!vars
  BY <1>6 DEF Gate!vars
<1> QED
  BY <1>1, <1>2, <1>3, <1>4, <1>5, <1>6 DEF Gate!CoarseNext, Gate!Next

LEMMA ExclusionInit == Gate!Init => Kept
  BY DEF Gate!Init, Kept, GateTypeOK, Gate!Exclusive, Gate!Holds

(* The step-by-step contract has fewer steps than the other.               *)
LEMMA FineIsCoarse == Gate!Spec => Gate!CoarseSpec
<1>1. [Gate!Next]_(Gate!vars) => [Gate!CoarseNext]_(Gate!vars)
  BY DEF Gate!CoarseNext
<1> QED
  BY <1>1, PTL DEF Gate!Spec, Gate!CoarseSpec

(* Whoever has a browser has the account, and whoever let go has neither,  *)
(* for good: what every module relies on that starts a browser, whether it *)
(* ends the browser and lets go of the account in two steps, as the ledger *)
(* and the queue do, or in one, as those see it who only use an account.   *)
THEOREM BrowsersHaveTheirAccount ==
  ASSUME None \notin Ops
  PROVE  Gate!Spec \/ Gate!CoarseSpec => []Gate!Exclusive /\ Gate!Final
<1>1. Kept /\ [Gate!CoarseNext]_(Gate!vars) => Kept'
  BY ExclusionStep
<1>2. Kept /\ [Gate!CoarseNext]_(Gate!vars) => [released \subseteq released']_(Gate!vars)
  BY ExclusionStep
<1>3. Kept => Gate!Exclusive
  BY DEF Kept
<1> QED
  BY <1>1, <1>2, <1>3, ExclusionInit, FineIsCoarse, PTL DEF Gate!CoarseSpec, Gate!Final

-----------------------------------------------------------------------------
(* OneShotPublication                                                      *)

ShotOK ==
    /\ attempt \in [Targets -> Runs \cup {None}]
    /\ posts \in [Targets -> SUBSET Runs]
    /\ verdict \in [Targets -> {"none", "published", "not_published", "unknown"}]
    /\ OneShot!Truthful

ShotsStand == \A t \in Targets :
    /\ attempt[t] # None => attempt'[t] = attempt[t]
    /\ verdict[t] # "none" => verdict'[t] = verdict[t]
    /\ posts[t] # {} => posts'[t] = posts[t]

LEMMA OneShotStep ==
  ASSUME None \notin Runs, ShotOK, [OneShot!Next]_(OneShot!vars)
  PROVE  ShotOK' /\ ShotsStand
<1> USE DEF ShotOK, ShotsStand, OneShot!Truthful
<1>1. ASSUME NEW t \in Targets, NEW r \in Runs, OneShot!Claim(t, r)
      PROVE  ShotOK' /\ ShotsStand
  BY <1>1 DEF OneShot!Claim
<1>2. ASSUME NEW t \in Targets, OneShot!Post(t)
      PROVE  ShotOK' /\ ShotsStand
  BY <1>2 DEF OneShot!Post
<1>3. ASSUME NEW t \in Targets, NEW v \in {"published", "not_published", "unknown"},
             OneShot!Judge(t, v)
      PROVE  ShotOK' /\ ShotsStand
  BY <1>3 DEF OneShot!Judge
<1>4. CASE UNCHANGED OneShot!vars
  BY <1>4 DEF OneShot!vars
<1> QED
  BY <1>1, <1>2, <1>3, <1>4 DEF OneShot!Next

(* Whatever is published, deleted or called under the one-shot contract    *)
(* is so by its one attempt, a verdict that says so is and stays true, and *)
(* nothing is taken back.                                                  *)
THEOREM OneShotsAreTrueAndFinal ==
  ASSUME None \notin Runs
  PROVE  OneShot!Spec => []OneShot!Truthful /\ OneShot!Final
<1>1. OneShot!Init => ShotOK
  BY DEF OneShot!Init, ShotOK, OneShot!Truthful
<1>2. ShotOK /\ [OneShot!Next]_(OneShot!vars) => ShotOK'
  BY OneShotStep
<1>3. ShotOK /\ [OneShot!Next]_(OneShot!vars) => [ShotsStand]_(OneShot!vars)
  BY OneShotStep
<1>4. ShotOK => OneShot!Truthful
  BY DEF ShotOK
<1> QED
  BY <1>1, <1>2, <1>3, <1>4, PTL DEF OneShot!Spec, OneShot!Final, ShotsStand

-----------------------------------------------------------------------------
(* IntentLedger                                                            *)

LedgerTypeOK ==
    /\ link \in [Seekers -> SUBSET Publications]
    /\ creator \in [Publications -> Seekers \cup {None}]
    /\ stage \in [Publications -> {"none", "queued", "sent", "claimed", "delivered"}]

LedgerOK == LedgerTypeOK /\ Ledger!Sound

LinksStand ==
    /\ \A s \in Seekers : link[s] # {} => link'[s] = link[s]
    /\ \A p \in Publications : creator[p] # None => creator'[p] = creator[p]

LEMMA LedgerStep ==
  ASSUME None \notin Seekers, LedgerOK, [Ledger!Next]_(Ledger!vars)
  PROVE  LedgerOK' /\ LinksStand
<1> USE DEF LedgerOK, LedgerTypeOK, LinksStand, Ledger!Sound, Ledger!Agree
<1>1. ASSUME NEW s \in Seekers, Ledger!PutOff(s)
      PROVE  LedgerOK' /\ LinksStand
  BY <1>1 DEF Ledger!PutOff
<1>2. ASSUME NEW s \in Seekers, NEW p \in Publications, Ledger!Create(s, p)
      PROVE  LedgerOK' /\ LinksStand
  BY <1>2 DEF Ledger!Create
<1>3. ASSUME NEW s \in Seekers, NEW p \in Publications, Ledger!Join(s, p)
      PROVE  LedgerOK' /\ LinksStand
  BY <1>3 DEF Ledger!Join
<1>4. ASSUME NEW page \in SUBSET Publications, Ledger!Send(page)
      PROVE  LedgerOK' /\ LinksStand
  BY <1>4 DEF Ledger!Send
<1>5. ASSUME NEW p \in Publications,
             Ledger!Advance(p, "sent", "claimed") \/ Ledger!Advance(p, "claimed", "delivered")
      PROVE  LedgerOK' /\ LinksStand
  BY <1>5 DEF Ledger!Advance
<1>6. CASE UNCHANGED Ledger!vars
  BY <1>6 DEF Ledger!vars
<1> QED
  BY <1>1, <1>2, <1>3, <1>4, <1>5, <1>6 DEF Ledger!Next

(* Whoever is linked in the outbox shares the publication only with those  *)
(* who agree on its withdrawal, waits for nothing, and stays linked.       *)
THEOREM LinksAreSoundAndFinal ==
  ASSUME None \notin Seekers
  PROVE  Ledger!Spec => []Ledger!Sound /\ Ledger!Final
<1>1. Ledger!Init => LedgerOK
  BY DEF Ledger!Init, LedgerOK, LedgerTypeOK, Ledger!Sound
<1>2. LedgerOK /\ [Ledger!Next]_(Ledger!vars) => LedgerOK'
  BY LedgerStep
<1>3. LedgerOK /\ [Ledger!Next]_(Ledger!vars) => [LinksStand]_(Ledger!vars)
  BY LedgerStep
<1>4. LedgerOK => Ledger!Sound
  BY DEF LedgerOK
<1> QED
  BY <1>1, <1>2, <1>3, <1>4, PTL DEF Ledger!Spec, Ledger!Final, LinksStand

-----------------------------------------------------------------------------
(* FencedWork                                                              *)

WorkOK ==
    /\ holding \in [Jobs -> Claimants \cup {None}]
    /\ taken \subseteq Claimants /\ settled \subseteq Claimants
    /\ Work!Fenced

DisplacedStay ==
    /\ settled \subseteq settled'
    /\ \A c \in Claimants : Work!Displaced(c) =>
           Work!Displaced(c)' /\ (c \in settled' <=> c \in settled)

LEMMA WorkStep ==
  ASSUME None \notin Claimants, WorkOK, [Work!Next]_(Work!vars)
  PROVE  WorkOK' /\ DisplacedStay
<1> USE DEF WorkOK, DisplacedStay, Work!Fenced, Work!Displaced, Work!Holds
<1>1. ASSUME NEW j \in Jobs, NEW c \in Claimants, Work!Take(j, c)
      PROVE  WorkOK' /\ DisplacedStay
  BY <1>1 DEF Work!Take
<1>2. ASSUME NEW j \in Jobs, NEW c \in Claimants, Work!Settle(j, c)
      PROVE  WorkOK' /\ DisplacedStay
  BY <1>2 DEF Work!Settle
<1>3. ASSUME NEW j \in Jobs, Work!Lose(j)
      PROVE  WorkOK' /\ DisplacedStay
  BY <1>3 DEF Work!Lose
<1>4. CASE UNCHANGED Work!vars
  BY <1>4 DEF Work!vars
<1> QED
  BY <1>1, <1>2, <1>3, <1>4 DEF Work!Next

(* A result under a lease is that of the claimant who holds the job, comes *)
(* once, and never from one that was displaced, however late it reports.   *)
THEOREM DisplacedAreFencedOff ==
  ASSUME None \notin Claimants
  PROVE  Work!Spec => []Work!Fenced /\ Work!Final
<1>1. Work!Init => WorkOK
  BY DEF Work!Init, WorkOK, Work!Fenced, Work!Holds
<1>2. WorkOK /\ [Work!Next]_(Work!vars) => WorkOK'
  BY WorkStep
<1>3. WorkOK /\ [Work!Next]_(Work!vars) => [DisplacedStay]_(Work!vars)
  BY WorkStep
<1>4. WorkOK => Work!Fenced
  BY DEF WorkOK
<1> QED
  BY <1>1, <1>2, <1>3, <1>4, PTL DEF Work!Spec, Work!Final, DisplacedStay
=============================================================================
