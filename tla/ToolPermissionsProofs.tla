------------------------- MODULE ToolPermissionsProofs -------------------------
(***************************************************************************)
(* Proofs about ToolPermissions for any number of calls, tools and turns.  *)
(*                                                                         *)
(* A permission is answered, stored and found in steps of several calls,   *)
(* and a reset, itself two steps, may come between any two of them: what   *)
(* carries the proofs is that from its answer on a permission has consent  *)
(* behind it, or a withdrawal that is on record as having missed it.       *)
(***************************************************************************)
EXTENDS ToolPermissions, SequenceTheorems, FiniteSetTheorems, TLAPS

(* A call that is past the plan approval had its plan approved.            *)
PlanBehind ==
  \A c \in HighStakes :
    pc[c] \in {"gate", "stored", "keep", "ask", "askWait", "allowed"} => hitlAnswer[c] = "approved"

(* What lets a tool through without asking was consented to, and so was a  *)
(* lasting answer that has not been stored yet; or it was withdrawn too    *)
(* late.                                                                   *)
ConsentBehind ==
  /\ sessionPerms \subseteq consent \cup late
  /\ \A t \in Tools : StoredFor(t) => t \in consent \cup late
  /\ \A c \in Calls : Storing(c) => ToolOf[c] \in consent \cup late

(* A call has an answer only once it has asked, and is the one on the      *)
(* screen only while it waits for one.                                     *)
AnswersAsked ==
  /\ \A c \in Calls : pc[c] \in {"idle", "planReady", "planWait", "gate", "stored", "keep", "ask"} =>
       answer[c] = "none"
  /\ permissionChan # NoCall =>
       pc[permissionChan] = "askWait" /\ answer[permissionChan] = "none"

(* The plan on the screen is the head of the queue.                        *)
ShownIsHead ==
  /\ awaitingHITL <=> hitlQueue # <<>>
  /\ hitlRequest = (IF hitlQueue = <<>> THEN NoCall ELSE Head(hitlQueue))

(* The queue holds calls that wait for a decision, each of them once.      *)
QueuedWait ==
  /\ \A i \in DOMAIN hitlQueue : pc[hitlQueue[i]] = "planWait" /\ hitlAnswer[hitlQueue[i]] = "none"
  /\ \A i, j \in DOMAIN hitlQueue : hitlQueue[i] = hitlQueue[j] => i = j
  /\ \A c \in Calls : pc[c] \in {"idle", "planReady"} => hitlAnswer[c] = "none"

(* A call that waits for a decision is in the queue.                       *)
WaitingQueued ==
  \A c \in Calls : pc[c] = "planWait" /\ hitlAnswer[c] = "none" =>
    \E i \in DOMAIN hitlQueue : hitlQueue[i] = c

PermInv ==
  /\ PermTypeOK
  /\ PlanBehind
  /\ ConsentBehind
  /\ AnswersAsked
  /\ ShownIsHead
  /\ QueuedWait
  /\ WaitingQueued

------------------------------------------------------------------------------
LEMMA PermInitInv == PermInit => PermInv
<1> SUFFICES ASSUME PermInit PROVE PermInv
  OBVIOUS
<1> USE PermissionsAssumption
<1>1. PermTypeOK
  <2>1. /\ permissions \in [Tools -> Levels] /\ sessionPerms \in SUBSET Tools
        /\ resetting \in SUBSET Tools /\ consent \in SUBSET Tools /\ late \in SUBSET Tools
    BY DEF PermInit, Levels
  <2>2. pc \in [Calls -> CallPhases]
    BY DEF PermInit, CallPhases
  <2>3. /\ hitlAnswer \in [Calls -> {"none", "approved", "rejected"}]
        /\ answer \in [Calls -> Levels \cup {"none"}]
    BY DEF PermInit
  <2>4. /\ hitlQueue \in Seq(Calls)
        /\ hitlRequest \in Calls \cup {NoCall}
        /\ awaitingHITL \in BOOLEAN
        /\ permissionChan \in Calls \cup {NoCall}
        /\ generating \in BOOLEAN /\ turn \in Nat
        /\ up \in BOOLEAN
    BY EmptySeq DEF PermInit
  <2> QED
    BY <2>1, <2>2, <2>3, <2>4 DEF PermTypeOK
<1>2. PlanBehind /\ AnswersAsked /\ ShownIsHead /\ QueuedWait /\ WaitingQueued
  BY DEF PermInit, PlanBehind, AnswersAsked, ShownIsHead, QueuedWait, WaitingQueued
<1>3. ConsentBehind
  BY DEF PermInit, ConsentBehind, Storing
<1> QED
  BY <1>1, <1>2, <1>3 DEF PermInv

(* Calls: none of their steps touches the queue or the screen.             *)
LEMMA CallStepInv == ASSUME PermInv, NEW c \in Calls, CallStep(c) PROVE PermInv'
<1> USE PermissionsAssumption DEF PermInv, PermTypeOK, PlanBehind, ConsentBehind,
      AnswersAsked, ShownIsHead, QueuedWait, WaitingQueued, uiVars, lineVars, permVars, Goes, CallPhases, Ended,
      Levels, Storing, StoredFor, histVars
<1>1. CASE Start(c)
  BY <1>1 DEF Start
<1>2. CASE EndsEarly(c)
  BY <1>2 DEF EndsEarly
<1>3. CASE PlanDecided(c)
  BY <1>3 DEF PlanDecided
<1>4. CASE CheckSession(c)
  BY <1>4 DEF CheckSession
<1>5. CASE CheckStored(c)
  <2>1. PICK phase \in {"allowed", "refused", "keep", "ask"} :
          /\ pc' = [pc EXCEPT ![c] = phase]
          /\ phase = "keep" => permissions[ToolOf[c]] = "session"
    BY <1>5 DEF CheckStored
  <2>2. pc[c] = "stored" /\ UNCHANGED <<hitlAnswer, answer, uiVars, lineVars, permVars, resetting, up, histVars>>
    BY <1>5 DEF CheckStored
  <2> QED
    BY <2>1, <2>2
<1>6. CASE KeepForSession(c)
  BY <1>6 DEF KeepForSession
<1>7. CASE ApplyAnswer(c)
  BY <1>7 DEF ApplyAnswer, OnItsWay
<1> QED
  BY <1>1, <1>2, <1>3, <1>4, <1>5, <1>6, <1>7 DEF CallStep

------------------------------------------------------------------------------
(* The UI.                                                                 *)

LEMMA HandleHITLRequestInv ==
  ASSUME PermInv, NEW c \in Calls, HandleHITLRequest(c) PROVE PermInv'
<1> USE PermissionsAssumption DEF PermInv, PermTypeOK, uiVars, lineVars, permVars, Goes, CallPhases, Ended, Levels, histVars
<1>1. PermTypeOK'
  BY DEF HandleHITLRequest, ShownIsHead
<1>2. PlanBehind' /\ ConsentBehind' /\ AnswersAsked'
  BY DEF HandleHITLRequest, PlanBehind, ConsentBehind, Storing, StoredFor, AnswersAsked
<1>3. ShownIsHead'
  BY DEF HandleHITLRequest, ShownIsHead
<1>4. QueuedWait'
  BY DEF HandleHITLRequest, QueuedWait
<1>5. WaitingQueued'
  <2>1. /\ DOMAIN hitlQueue \subseteq DOMAIN hitlQueue'
        /\ \A i \in DOMAIN hitlQueue : hitlQueue'[i] = hitlQueue[i]
        /\ Len(hitlQueue) + 1 \in DOMAIN hitlQueue'
        /\ hitlQueue'[Len(hitlQueue) + 1] = c
    BY DEF HandleHITLRequest
  <2>2. \A d \in Calls \ {c} : pc'[d] = pc[d] /\ hitlAnswer'[d] = hitlAnswer[d]
    BY DEF HandleHITLRequest
  <2> QED
    BY <2>1, <2>2 DEF WaitingQueued
<1> QED
  BY <1>1, <1>2, <1>3, <1>4, <1>5

LEMMA ResolveInv ==
  ASSUME PermInv, NEW decision \in {"approved", "rejected"}, ResolveCurrentHITL(decision)
  PROVE PermInv'
<1> USE PermissionsAssumption DEF PermInv, PermTypeOK, uiVars, lineVars, permVars, CallPhases, Ended, Levels, histVars
<1> DEFINE h == Head(hitlQueue)
<1>1. h \in Calls /\ h = hitlQueue[1] /\ 1 \in DOMAIN hitlQueue
  BY DEF ResolveCurrentHITL
<1>2. /\ Len(Tail(hitlQueue)) = Len(hitlQueue) - 1
      /\ \A i \in 1 .. Len(hitlQueue) - 1 : Tail(hitlQueue)[i] = hitlQueue[i + 1]
      /\ Tail(hitlQueue) \in Seq(Calls)
  BY DEF ResolveCurrentHITL
<1>3. /\ DOMAIN hitlQueue = 1 .. Len(hitlQueue)
      /\ DOMAIN hitlQueue' = 1 .. Len(hitlQueue) - 1
      /\ Len(hitlQueue) \in Nat
      /\ \A i \in DOMAIN hitlQueue' : hitlQueue'[i] = hitlQueue[i + 1]
  <2>1. hitlQueue \in Seq(Calls) /\ hitlQueue' = Tail(hitlQueue)
    BY DEF ResolveCurrentHITL
  <2> QED
    BY <1>2, <2>1, LenProperties
<1>4. PermTypeOK'
  <2>1. hitlAnswer' \in [Calls -> {"none", "approved", "rejected"}]
    BY <1>1 DEF ResolveCurrentHITL
  <2>2. hitlQueue' \in Seq(Calls) /\ awaitingHITL' \in BOOLEAN
    BY <1>2 DEF ResolveCurrentHITL
  <2>3. hitlRequest' \in Calls \cup {NoCall}
    BY <1>2 DEF ResolveCurrentHITL
  <2>4. UNCHANGED <<pc, answer, permissionChan, lineVars, permVars, resetting, up, histVars>>
    BY DEF ResolveCurrentHITL
  <2> QED
    BY <2>1, <2>2, <2>3, <2>4
<1>5. PlanBehind' /\ ConsentBehind' /\ AnswersAsked'
  <2>1. PlanBehind'
    BY <1>1 DEF ResolveCurrentHITL, PlanBehind, QueuedWait
  <2>2. ConsentBehind'
    BY DEF ResolveCurrentHITL, ConsentBehind, Storing, StoredFor
  <2>3. AnswersAsked'
    BY DEF ResolveCurrentHITL, AnswersAsked
  <2> QED
    BY <2>1, <2>2, <2>3
<1>6. ShownIsHead'
  BY DEF ResolveCurrentHITL, ShownIsHead
<1>7. QueuedWait'
  <2>1. ASSUME NEW i \in DOMAIN hitlQueue'
        PROVE /\ i + 1 \in DOMAIN hitlQueue
              /\ hitlQueue'[i] = hitlQueue[i + 1]
              /\ i \in Nat /\ i > 0
    BY <1>3
  <2>2. /\ hitlAnswer' = [hitlAnswer EXCEPT ![h] = decision]
        /\ UNCHANGED pc
    BY DEF ResolveCurrentHITL
  <2>3. pc[h] = "planWait"
    BY <1>1 DEF QueuedWait
  <2>4. ASSUME NEW i \in DOMAIN hitlQueue'
        PROVE hitlQueue'[i] # h /\ hitlQueue'[i] \in Calls
    <3>1. i + 1 # 1
      BY <2>1
    <3>2. hitlQueue[i + 1] # hitlQueue[1]
      BY <1>1, <2>1, <3>1 DEF QueuedWait
    <3> QED
      BY <1>1, <2>1, <3>2
  <2>5. \A i \in DOMAIN hitlQueue' :
          pc'[hitlQueue'[i]] = "planWait" /\ hitlAnswer'[hitlQueue'[i]] = "none"
    BY <2>1, <2>2, <2>4 DEF QueuedWait
  <2>6. ASSUME NEW i \in DOMAIN hitlQueue', NEW j \in DOMAIN hitlQueue', hitlQueue'[i] = hitlQueue'[j]
        PROVE i = j
    <3>1. i + 1 = j + 1
      BY <2>1, <2>6 DEF QueuedWait
    <3> QED
      BY <2>1, <3>1
  <2>7. \A c \in Calls : pc'[c] \in {"idle", "planReady"} => hitlAnswer'[c] = "none"
    BY <2>2, <2>3 DEF QueuedWait
  <2> QED
    BY <2>5, <2>6, <2>7 DEF QueuedWait
<1>8. WaitingQueued'
  <2> SUFFICES ASSUME NEW c \in Calls, pc'[c] = "planWait", hitlAnswer'[c] = "none"
               PROVE \E i \in DOMAIN hitlQueue' : hitlQueue'[i] = c
    BY DEF WaitingQueued
  <2>1. c # h /\ pc[c] = "planWait" /\ hitlAnswer[c] = "none"
    BY <1>1 DEF ResolveCurrentHITL
  <2>2. PICK i \in DOMAIN hitlQueue : hitlQueue[i] = c
    BY <2>1 DEF WaitingQueued
  <2>3. i # 1
    BY <1>1, <2>1, <2>2
  <2>4. i - 1 \in DOMAIN hitlQueue' /\ hitlQueue'[i - 1] = hitlQueue[i]
    <3>1. i \in 1 .. Len(hitlQueue) /\ i - 1 \in 1 .. Len(hitlQueue) - 1
      BY <1>3, <2>3
    <3> QED
      BY <1>3, <3>1
  <2> QED
    BY <2>2, <2>4
<1> QED
  BY <1>4, <1>5, <1>6, <1>7, <1>8

LEMMA PromptInv ==
  ASSUME PermInv, (\E c \in Calls : HandlePermissionRequest(c)) \/ HumanAnswersPrompt
  PROVE PermInv'
<1> USE PermissionsAssumption DEF PermInv, PermTypeOK, uiVars, lineVars, permVars, Goes, CallPhases, Ended,
      Levels, histVars, PlanBehind, ConsentBehind, Storing, StoredFor, AnswersAsked, ShownIsHead, QueuedWait, WaitingQueued
<1>1. ASSUME NEW c \in Calls, HandlePermissionRequest(c) PROVE PermInv'
  BY <1>1 DEF HandlePermissionRequest
<1>2. CASE DenyPermission
  BY <1>2 DEF DenyPermission, Reply
<1>3. ASSUME NEW level \in Levels, ApprovePermission(level) PROVE PermInv'
  BY <1>3 DEF ApprovePermission, Reply, OnItsWay
<1> QED
  BY <1>1, <1>2, <1>3 DEF HumanAnswersPrompt

(* A reset: it takes consent away only in its second step, and records     *)
(* what that step does not take away.                                      *)
LEMMA ResetInv ==
  ASSUME PermInv, ResetAllPermissions \/ ClearSession \/ \E t \in Tools : ResetToolPermission(t)
  PROVE PermInv'
<1> USE PermissionsAssumption DEF PermInv, PermTypeOK, uiVars, lineVars, permVars, histVars, CallPhases, Ended, Levels
<1>1. UNCHANGED <<pc, hitlAnswer, answer, hitlQueue, hitlRequest, awaitingHITL, permissionChan,
                  generating, turn, up>>
  BY DEF ResetAllPermissions, ClearSession, ResetToolPermission
<1>2. \A c \in Calls : Storing(c)' <=> Storing(c)
  BY <1>1 DEF Storing
<1>3. PlanBehind' /\ AnswersAsked' /\ ShownIsHead' /\ QueuedWait' /\ WaitingQueued'
  BY <1>1 DEF PlanBehind, AnswersAsked, ShownIsHead, QueuedWait, WaitingQueued
<1>4. CASE ResetAllPermissions
  BY <1>1, <1>2, <1>3, <1>4 DEF ResetAllPermissions, ConsentBehind, StoredFor
<1>5. ASSUME NEW t \in Tools, ResetToolPermission(t) PROVE PermInv'
  BY <1>1, <1>2, <1>3, <1>5 DEF ResetToolPermission, ConsentBehind, StoredFor
<1>6. CASE ClearSession
  <2>1. \A c \in Calls : Storing(c) => ToolOf[c] \in OnItsWay
    BY DEF OnItsWay
  <2>2. ConsentBehind'
    BY <1>1, <1>2, <1>6, <2>1 DEF ClearSession, ConsentBehind, StoredFor, Missed
  <2>3. PermTypeOK'
    BY <1>1, <1>6 DEF ClearSession, Missed
  <2> QED
    BY <1>3, <2>2, <2>3
<1> QED
  BY <1>4, <1>5, <1>6

(* Steps that leave calls, gates and permissions alone.                    *)
LEMMA LineInv ==
  ASSUME PermInv, SubmitPrompt \/ StopGenerating \/ \E c \in Calls : MapRace(c)
  PROVE PermInv'
<1> USE DEF uiVars, lineVars, permVars, histVars
<1>1. UNCHANGED <<pc, hitlAnswer, answer, uiVars, permVars, resetting, histVars>>
  BY DEF SubmitPrompt, StopGenerating, MapRace
<1>2. generating' \in BOOLEAN /\ turn' \in Nat /\ up' \in BOOLEAN
  <2> generating \in BOOLEAN /\ turn \in Nat /\ up \in BOOLEAN
    BY DEF PermInv, PermTypeOK
  <2>1. CASE SubmitPrompt
    BY <2>1 DEF SubmitPrompt
  <2>2. CASE StopGenerating
    BY <2>2 DEF StopGenerating
  <2>3. CASE \E c \in Calls : MapRace(c)
    BY <2>3 DEF MapRace
  <2> QED
    BY <2>1, <2>2, <2>3
<1> QED
  BY <1>1, <1>2 DEF PermInv, PermTypeOK, PlanBehind, ConsentBehind, Storing, StoredFor, AnswersAsked,
     ShownIsHead, QueuedWait, WaitingQueued

LEMMA PermNextInv == PermInv /\ [PermNext]_toolVars => PermInv'
<1> SUFFICES ASSUME PermInv, [PermNext]_toolVars PROVE PermInv'
  OBVIOUS
<1>1. CASE UNCHANGED toolVars
  BY <1>1 DEF toolVars, uiVars, lineVars, permVars, histVars, PermInv, PermTypeOK, PlanBehind, ConsentBehind,
     Storing, StoredFor, AnswersAsked, ShownIsHead, QueuedWait, WaitingQueued
<1>2. ASSUME NEW c \in Calls, CallStep(c) PROVE PermInv'
  BY <1>2, CallStepInv
<1>3. ASSUME NEW c \in Calls, UiStep(c) PROVE PermInv'
  BY <1>3, HandleHITLRequestInv, PromptInv DEF UiStep
<1>4. CASE SubmitPrompt \/ StopGenerating \/ \E c \in Calls : MapRace(c)
  BY <1>4, LineInv
<1>5. CASE HumanDecidesPlan
  BY <1>5, ResolveInv DEF HumanDecidesPlan
<1>6. CASE HumanAnswersPrompt
  BY <1>6, PromptInv
<1>7. CASE ResetAllPermissions \/ ClearSession \/ \E t \in Tools : ResetToolPermission(t)
  BY <1>7, ResetInv
<1> QED
  BY <1>1, <1>2, <1>3, <1>4, <1>5, <1>6, <1>7 DEF PermNext

(* PermInv holds in every reachable state: the invariant behind the        *)
(* theorems below.                                                         *)
THEOREM PermInvariant == PermSpec => []PermInv
  BY PermInitInv, PermNextInv, PTL DEF PermSpec

------------------------------------------------------------------------------
(* Every plan request is decided once and none is lost: a call that waits   *)
(* is in the queue of the UI exactly once, and the screen shows the head of *)
(* the queue (model.go 2865-2900, update.go 1964-1989).                     *)
THEOREM PlansAccountedForHolds == PermSpec => []PlansAccountedFor
<1>1. PermInv => PlansAccountedFor
  <2> SUFFICES ASSUME PermInv PROVE PlansAccountedFor
    OBVIOUS
  <2> DEFINE Places(c) == {i \in DOMAIN hitlQueue : hitlQueue[i] = c}
  <2>1. ASSUME NEW c \in Calls, pc[c] = "planWait" /\ hitlAnswer[c] = "none"
        PROVE Cardinality(Places(c)) = 1
    <3>1. PICK i \in DOMAIN hitlQueue : hitlQueue[i] = c
      BY <2>1 DEF PermInv, WaitingQueued
    <3>2. Places(c) = {i}
      BY <3>1 DEF PermInv, QueuedWait
    <3> QED
      BY <3>2, FS_Singleton
  <2>2. ASSUME NEW c \in Calls, ~(pc[c] = "planWait" /\ hitlAnswer[c] = "none")
        PROVE Cardinality(Places(c)) = 0
    <3>1. Places(c) = {}
      BY <2>2 DEF PermInv, QueuedWait
    <3> QED
      BY <3>1, FS_EmptySet
  <2> QED
    BY <2>1, <2>2 DEF PlansAccountedFor, PermInv, ShownIsHead
<1> QED
  BY <1>1, PermInvariant, PTL

(* Every variable of the gates keeps its type.                             *)
THEOREM PermTypeCorrect == PermSpec => []PermTypeOK
<1>1. PermInv => PermTypeOK
  BY DEF PermInv
<1> QED
  BY <1>1, PermInvariant, PTL

(* No call passes both gates without the consent of the human: a level that *)
(* checkPermission finds stored, or is answered, was given by the human, and *)
(* is withdrawn, if it was, only by a reset or a never that missed it       *)
(* (registry.go 983-1025, commands/registry.go 1683-1718).                  *)
THEOREM QuietWithdrawalSticksHolds == PermSpec => QuietWithdrawalSticks
<1> DEFINE Consented ==
      \A c \in Calls : pc'[c] = "allowed" /\ pc[c] # "allowed" =>
        /\ c \in HighStakes => hitlAnswer[c] = "approved"
        /\ answer[c] \in {"always", "session", "once"} \/ ToolOf[c] \in consent \cup late
<1>1. PermInv /\ [PermNext]_toolVars => [Consented]_toolVars
  <2> SUFFICES ASSUME PermInv, PermNext, NEW c \in Calls, pc'[c] = "allowed", pc[c] # "allowed"
               PROVE /\ c \in HighStakes => hitlAnswer[c] = "approved"
                     /\ answer[c] \in {"always", "session", "once"} \/ ToolOf[c] \in consent \cup late
    OBVIOUS
  <2> USE PermissionsAssumption DEF PermInv, PermTypeOK, Goes, CallPhases, Ended, Levels
  <2>1. CheckSession(c) \/ CheckStored(c) \/ KeepForSession(c) \/ ApplyAnswer(c)
    <3>1. ASSUME NEW d \in Calls, CallStep(d)
          PROVE  CheckSession(c) \/ CheckStored(c) \/ KeepForSession(c) \/ ApplyAnswer(c)
      <4>1. d = c
        BY <3>1 DEF CallStep, Start, EndsEarly, PlanDecided, CheckSession, CheckStored,
           KeepForSession, ApplyAnswer
      <4>2. ~Start(c) /\ ~EndsEarly(c) /\ ~PlanDecided(c)
        BY DEF Start, EndsEarly, PlanDecided
      <4> QED
        BY <3>1, <4>1, <4>2 DEF CallStep
    <3>2. ASSUME NEW d \in Calls PROVE ~UiStep(d)
      BY DEF UiStep, HandleHITLRequest, HandlePermissionRequest
    <3>3. pc' # pc
      OBVIOUS
    <3>4. /\ ~SubmitPrompt /\ ~StopGenerating /\ ~ \E d \in Calls : MapRace(d)
          /\ ~HumanDecidesPlan /\ ~HumanAnswersPrompt /\ ~ResetAllPermissions /\ ~ClearSession
          /\ ~ \E t \in Tools : ResetToolPermission(t)
      BY <3>3 DEF SubmitPrompt, StopGenerating, MapRace, HumanDecidesPlan, ResolveCurrentHITL,
         HumanAnswersPrompt, DenyPermission,
         ApprovePermission, Reply, ResetAllPermissions, ResetToolPermission, ClearSession
    <3> QED
      BY <3>1, <3>2, <3>4 DEF PermNext
  <2>2. c \in HighStakes => hitlAnswer[c] = "approved"
    BY <2>1 DEF CheckSession, CheckStored, KeepForSession, ApplyAnswer, PlanBehind
  <2>3. answer[c] \in {"always", "session", "once"} \/ ToolOf[c] \in consent \cup late
    BY <2>1 DEF CheckSession, CheckStored, KeepForSession, ApplyAnswer, ConsentBehind, Storing, StoredFor
  <2> QED
    BY <2>2, <2>3
<1> QED
  BY <1>1, PermInvariant, PTL DEF PermSpec, QuietWithdrawalSticks

(* The decision reaches the call whose plan is on the screen, whatever      *)
(* arrived meanwhile (model.go 2865-2900).                                  *)
THEOREM DecidesShownPlanHolds == PermSpec => DecidesShownPlan
<1> DEFINE Shown == \A c \in Calls : hitlAnswer'[c] # hitlAnswer[c] => c = hitlRequest
<1>1. PermInv /\ [PermNext]_toolVars => [Shown]_toolVars
  <2> SUFFICES ASSUME PermInv, PermNext, NEW c \in Calls, hitlAnswer'[c] # hitlAnswer[c]
               PROVE c = hitlRequest
    OBVIOUS
  <2>1. PICK decision \in {"approved", "rejected"} : ResolveCurrentHITL(decision)
    BY DEF PermNext, CallStep, UiStep, Start, EndsEarly, PlanDecided, CheckSession, CheckStored,
       KeepForSession, ApplyAnswer, SubmitPrompt, StopGenerating, MapRace, HandleHITLRequest,
       HandlePermissionRequest, HumanDecidesPlan,
       HumanAnswersPrompt, DenyPermission, ApprovePermission, Reply,
       ResetAllPermissions, ResetToolPermission, ClearSession
  <2> QED
    BY <2>1 DEF ResolveCurrentHITL, PermInv, PermTypeOK, ShownIsHead
<1> QED
  BY <1>1, PermInvariant, PTL DEF PermSpec, DecidesShownPlan

------------------------------------------------------------------------------
(* The response channels.                                                  *)

(* The UI sends only to a call that waits, and that has not been sent      *)
(* anything before: the response channels have room for one value, and a   *)
(* second send would stop the UI goroutine for good.                       *)
AnsweredOnce ==
  [][\A c \in Calls :
       /\ answer'[c] # answer[c] => pc[c] = "askWait" /\ answer[c] = "none"
       /\ hitlAnswer'[c] # hitlAnswer[c] => pc[c] = "planWait" /\ hitlAnswer[c] = "none"]_toolVars

(* The channel is taken from the prompt or from the queue and forgotten in *)
(* the same step, so Enter, Esc and y cannot send twice, and no overwritten *)
(* prompt and no second plan brings an old channel back                    *)
(* (model.go 2824-2842, 2868-2900).                                        *)
THEOREM AnsweredOnceHolds == PermSpec => AnsweredOnce
<1> DEFINE Once == \A c \in Calls :
             /\ answer'[c] # answer[c] => pc[c] = "askWait" /\ answer[c] = "none"
             /\ hitlAnswer'[c] # hitlAnswer[c] => pc[c] = "planWait" /\ hitlAnswer[c] = "none"
<1>1. PermInv /\ [PermNext]_toolVars => [Once]_toolVars
  <2> SUFFICES ASSUME PermInv, PermNext, NEW c \in Calls
               PROVE  /\ answer'[c] # answer[c] => pc[c] = "askWait" /\ answer[c] = "none"
                      /\ hitlAnswer'[c] # hitlAnswer[c] => pc[c] = "planWait" /\ hitlAnswer[c] = "none"
    OBVIOUS
  <2> USE DEF PermInv, PermTypeOK
  <2>1. ASSUME NEW decision \in {"approved", "rejected"}, ResolveCurrentHITL(decision), hitlAnswer'[c] # hitlAnswer[c]
        PROVE  pc[c] = "planWait" /\ hitlAnswer[c] = "none"
    <3>1. c = hitlQueue[1] /\ 1 \in DOMAIN hitlQueue
      BY <2>1 DEF ResolveCurrentHITL
    <3> QED
      BY <3>1 DEF QueuedWait
  <2>2. ASSUME NEW level, Reply(level), answer'[c] # answer[c]
        PROVE  pc[c] = "askWait" /\ answer[c] = "none"
    BY <2>2 DEF Reply, AnswersAsked
  <2>3. HumanDecidesPlan \/ HumanAnswersPrompt \/ UNCHANGED <<answer, hitlAnswer>>
    BY DEF PermNext, CallStep, UiStep, Start, EndsEarly, PlanDecided, CheckSession, CheckStored, KeepForSession,
       ApplyAnswer, SubmitPrompt, StopGenerating, MapRace, HandleHITLRequest, HandlePermissionRequest,
       ResetAllPermissions, ResetToolPermission, ClearSession
  <2>4. HumanDecidesPlan => UNCHANGED answer
    BY DEF HumanDecidesPlan, ResolveCurrentHITL
  <2>5. HumanAnswersPrompt => UNCHANGED hitlAnswer
    BY DEF HumanAnswersPrompt, DenyPermission, ApprovePermission, Reply
  <2> QED
    BY <2>1, <2>2, <2>3, <2>4, <2>5 DEF HumanDecidesPlan, HumanAnswersPrompt, DenyPermission, ApprovePermission
<1> QED
  BY <1>1, PermInvariant, PTL DEF PermSpec, AnsweredOnce

(* A call waits for the answer to a prompt that another one has replaced.  *)
Unseen(c) == pc[c] = "askWait" /\ answer[c] = "none" /\ permissionChan # c

(* Nothing brings an overwritten prompt back: whatever is answered, denied, *)
(* cancelled, submitted or reset afterwards, the call stays blocked.       *)
UnseenForEver == [][\A c \in Calls : Unseen(c) => Unseen(c)']_toolVars

(* The UI keeps one prompt and one channel (update.go 726-733): the        *)
(* response that RequestPermission blocks for (model.go 2819) never comes  *)
(* once another request has overwritten them.                              *)
THEOREM UnseenForEverHolds == PermSpec => UnseenForEver
<1>1. PermInv /\ [PermNext]_toolVars => [\A c \in Calls : Unseen(c) => Unseen(c)']_toolVars
  <2> SUFFICES ASSUME PermInv, PermNext, NEW c \in Calls, Unseen(c) PROVE Unseen(c)'
    OBVIOUS
  <2> USE PermissionsAssumption DEF PermInv, PermTypeOK, Unseen, uiVars, Goes
  <2>1. ASSUME NEW d \in Calls, CallStep(d) PROVE Unseen(c)'
    BY <2>1 DEF CallStep, Start, EndsEarly, PlanDecided, CheckSession, CheckStored, KeepForSession, ApplyAnswer
  <2>2. ASSUME NEW d \in Calls, UiStep(d) PROVE Unseen(c)'
    BY <2>2 DEF UiStep, HandleHITLRequest, HandlePermissionRequest
  <2>3. CASE HumanAnswersPrompt
    BY <2>3 DEF HumanAnswersPrompt, DenyPermission, ApprovePermission, Reply
  <2>4. CASE UNCHANGED <<pc, answer, permissionChan>>
    BY <2>4
  <2> QED
    BY <2>1, <2>2, <2>3, <2>4 DEF PermNext, MapRace, SubmitPrompt, StopGenerating, HumanDecidesPlan,
       ResolveCurrentHITL, ResetAllPermissions, ResetToolPermission, ClearSession
<1> QED
  BY <1>1, PermInvariant, PTL DEF PermSpec, UnseenForEver

==============================================================================
