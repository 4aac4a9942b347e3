---------------------------- MODULE ToolPermissions ----------------------------
(***************************************************************************)
(* Human gates in front of a tool: the plan approval of the engine         *)
(* (internal/engine/sense_hitl.go, orchestrator.go ExecuteTool), the       *)
(* permission check of the registry (pkg/tools/registry.go checkPermission *)
(* over pkg/tools/permissions.go) and the terminal UI that asks the human  *)
(* (internal/tui/model.go, update.go).                                     *)
(*                                                                         *)
(* The calls of one turn run in goroutines of their own                    *)
(* (internal/engine/streaming.go 800-851).  Ctrl+X and Esc give the input  *)
(* line back to the human while they still run, so that the calls of two   *)
(* turns, and a reset of the permissions, may meet.                        *)
(* The UI is one goroutine: each message and each key is one step of it.   *)
(* Calls whose plan is auto-approved are outside HighStakes; tools that    *)
(* need no permission are outside the model.  A call is "allowed" once it  *)
(* is past the permission check, behind which security mode and governance *)
(* may still stop it.                                                      *)
(***************************************************************************)
EXTENDS Naturals, Sequences, FiniteSets

CONSTANTS
  Calls,       \* tool calls
  Turn,        \* the turn each call belongs to; the last of them bounds the prompts
  Tools,
  ToolOf,      \* the tool a call names
  HighStakes,  \* calls that need a plan approval
  InFile,      \* the levels the permissions file may hold for each tool
  NoCall

ASSUME PermissionsAssumption ==
  /\ IsFiniteSet(Calls)
  /\ NoCall \notin Calls
  /\ Turn \in [Calls -> Nat]
  /\ ToolOf \in [Calls -> Tools]
  /\ HighStakes \subseteq Calls
  /\ InFile \in [Tools -> SUBSET {"always", "session", "once", "never"}]

VARIABLES
  pc,              \* where the goroutine of a call stands
  hitlAnswer,      \* the decision in the channel of a plan approval
  answer,          \* the level in the response channel of a permission request
  hitlQueue,       \* Model.hitlQueue: calls awaiting a plan approval
  hitlRequest,     \* Model.hitlRequest: the call whose plan is shown
  awaitingHITL,    \* Model.awaitingHITL
  permissionChan,  \* Model.permissionChan and permissionPrompt: the call asked about
  generating,      \* Model.generating
  turn,            \* prompts submitted
  sessionPerms,    \* Registry.sessionPerms
  permissions,     \* PermissionManager.permissions, "once" for no entry
  resetting,       \* tools whose session permission the UI goroutine is about
                   \* to clear for /permissions reset
  up,              \* FALSE after the Go runtime has aborted the process
  consent,         \* history: tools the human allowed for longer than a call
                   \* and has not withdrawn it since, by a reset or a never
  late             \* history: tools of which a withdrawal found a permission
                   \* that it does not take away, or one on its way

uiVars   == <<hitlQueue, hitlRequest, awaitingHITL, permissionChan>>
lineVars == <<generating, turn>>
permVars == <<sessionPerms, permissions>>
histVars == <<consent, late>>
toolVars == <<pc, hitlAnswer, answer, uiVars, lineVars, permVars, resetting, up, histVars>>

Levels   == {"always", "session", "once", "never"}
Ended    == {"allowed", "refused"}
CallPhases ==
  {"idle", "planReady", "planWait", "gate", "stored", "keep", "ask", "askWait"} \cup Ended

(* Keys reach the input line: no answer is being generated, no plan and no *)
(* prompt is on the screen.  A command runs in the UI goroutine.           *)
AtInputLine == ~generating /\ ~awaitingHITL /\ permissionChan = NoCall /\ resetting = {}

(* Tools with a lasting permission read or answered but not stored yet.    *)
Storing(c) ==
  \/ pc[c] = "keep"
  \/ pc[c] = "askWait" /\ answer[c] \in {"always", "session"}

OnItsWay == {ToolOf[c] : c \in {d \in Calls : Storing(d)}}
StoredFor(t) == permissions[t] \in {"always", "session"}

------------------------------------------------------------------------------
PermInit ==
  /\ pc = [c \in Calls |-> "idle"]
  /\ hitlAnswer = [c \in Calls |-> "none"]
  /\ answer = [c \in Calls |-> "none"]
  /\ hitlQueue = <<>>
  /\ hitlRequest = NoCall
  /\ awaitingHITL = FALSE
  /\ permissionChan = NoCall
  /\ generating = FALSE
  /\ turn = 0
  /\ sessionPerms = {}
  /\ permissions \in [Tools -> Levels]
  /\ \A t \in Tools : permissions[t] \in InFile[t]
  /\ resetting = {}
  /\ up = TRUE
  /\ consent = {t \in Tools : StoredFor(t)}
  /\ late = {}

------------------------------------------------------------------------------
(* A tool call: ExecuteTool, GateToolExecution, then checkPermission.      *)

Goes(c, phase) == pc' = [pc EXCEPT ![c] = phase]

Start(c) ==
  /\ pc[c] = "idle" /\ Turn[c] <= turn
  /\ Goes(c, IF c \in HighStakes THEN "planReady" ELSE "gate")
  /\ UNCHANGED <<hitlAnswer, answer, uiVars, lineVars, permVars, resetting, up, histVars>>

\* A call ends before it asks anyone: plan mode, a rule or a hook blocks it,
\* the tool cache answers it, or its parameters are invalid.
EndsEarly(c) ==
  /\ \/ pc[c] = "idle" /\ Turn[c] <= turn
     \/ pc[c] = "gate"
  /\ Goes(c, "refused")
  /\ UNCHANGED <<hitlAnswer, answer, uiVars, lineVars, permVars, resetting, up, histVars>>

\* RequestHITLApproval returns: approved and amended plans go on.
PlanDecided(c) ==
  /\ pc[c] = "planWait"
  /\ hitlAnswer[c] # "none"
  /\ Goes(c, IF hitlAnswer[c] = "rejected" THEN "refused" ELSE "gate")
  /\ UNCHANGED <<hitlAnswer, answer, uiVars, lineVars, permVars, resetting, up, histVars>>

\* First, and without a lock: the permissions of the session.
CheckSession(c) ==
  /\ pc[c] = "gate"
  /\ Goes(c, IF ToolOf[c] \in sessionPerms THEN "allowed" ELSE "stored")
  /\ UNCHANGED <<hitlAnswer, answer, uiVars, lineVars, permVars, resetting, up, histVars>>

\* Then the stored ones, read under the lock of the PermissionManager.
CheckStored(c) ==
  /\ pc[c] = "stored"
  /\ \/ permissions[ToolOf[c]] = "always" /\ Goes(c, "allowed")
     \/ permissions[ToolOf[c]] = "never" /\ Goes(c, "refused")
     \/ permissions[ToolOf[c]] = "session" /\ Goes(c, "keep")
     \/ permissions[ToolOf[c]] = "once" /\ Goes(c, "ask")
  /\ UNCHANGED <<hitlAnswer, answer, uiVars, lineVars, permVars, resetting, up, histVars>>

\* A stored "session" becomes a permission of the session.
KeepForSession(c) ==
  /\ pc[c] = "keep"
  /\ Goes(c, "allowed")
  /\ sessionPerms' = sessionPerms \cup {ToolOf[c]}
  /\ UNCHANGED <<hitlAnswer, answer, uiVars, lineVars, permissions, resetting, up, histVars>>

\* The handler returns the human's level.  A never that is stored while no
\* session permission stands, and none is on its way, is in force.
ApplyAnswer(c) ==
  /\ pc[c] = "askWait"
  /\ answer[c] # "none"
  /\ Goes(c, IF answer[c] = "never" THEN "refused" ELSE "allowed")
  /\ sessionPerms' = IF answer[c] = "session" THEN sessionPerms \cup {ToolOf[c]} ELSE sessionPerms
  /\ permissions' = IF answer[c] \in {"always", "never"}
                      THEN [permissions EXCEPT ![ToolOf[c]] = answer[c]] ELSE permissions
  /\ late' = IF answer[c] = "never" /\ ToolOf[c] \notin sessionPerms \cup OnItsWay
               THEN late \ {ToolOf[c]} ELSE late
  /\ UNCHANGED <<hitlAnswer, answer, uiVars, lineVars, resetting, up, consent>>

\* sessionPerms is a Go map read and written here without r.mu: a write
\* beside another access may make the runtime abort the process.  The delete
\* of RevokeSessionPermission is such a write; ClearSessionPermissions
\* replaces the map.
WritesSession(c)  == pc[c] = "keep" \/ (pc[c] = "askWait" /\ answer[c] = "session")
TouchesSession(c) == pc[c] = "gate" \/ WritesSession(c)

MapRace(c) ==
  /\ TouchesSession(c)
  /\ \/ \E t \in Tools : resetting = {t}
     \/ \E d \in Calls \ {c} : WritesSession(d)
  /\ up' = FALSE
  /\ UNCHANGED <<pc, hitlAnswer, answer, uiVars, lineVars, permVars, resetting, histVars>>

------------------------------------------------------------------------------
(* The UI goroutine.                                                       *)

\* Mutant: a plan that comes while another is shown replaces it.
HandleHITLReplaces(c) ==
  /\ pc[c] = "planReady" /\ resetting = {}
  /\ Goes(c, "planWait")
  /\ hitlQueue' = <<c>>
  /\ hitlRequest' = c
  /\ awaitingHITL' = TRUE
  /\ UNCHANGED <<hitlAnswer, answer, permissionChan, lineVars, permVars, resetting, up, histVars>>

\* handleHITLRequest: queue the plan, and show it if none is shown.
HandleHITLRequest(c) ==
  /\ pc[c] = "planReady" /\ resetting = {}
  /\ Goes(c, "planWait")
  /\ hitlQueue' = Append(hitlQueue, c)
  /\ hitlRequest' = IF awaitingHITL THEN hitlRequest ELSE Head(hitlQueue')
  /\ awaitingHITL' = TRUE
  /\ UNCHANGED <<hitlAnswer, answer, permissionChan, lineVars, permVars, resetting, up, histVars>>

\* PermissionRequestMsg: the prompt shown, if any, is replaced.
HandlePermissionRequest(c) ==
  /\ pc[c] = "ask" /\ resetting = {}
  /\ Goes(c, "askWait")
  /\ permissionChan' = c
  /\ UNCHANGED <<hitlAnswer, answer, hitlQueue, hitlRequest, awaitingHITL,
                 lineVars, permVars, resetting, up, histVars>>

\* Mutant: the decision goes to the request that came last.
ResolveLastHITL(decision) ==
  /\ awaitingHITL
  /\ hitlQueue # <<>>
  /\ hitlAnswer' = [hitlAnswer EXCEPT ![hitlQueue[Len(hitlQueue)]] = decision]
  /\ hitlQueue' = SubSeq(hitlQueue, 1, Len(hitlQueue) - 1)
  /\ hitlRequest' = IF hitlQueue' = <<>> THEN NoCall ELSE Head(hitlQueue')
  /\ awaitingHITL' = (hitlQueue' # <<>>)
  /\ UNCHANGED <<pc, answer, permissionChan, lineVars, permVars, resetting, up, histVars>>

\* resolveCurrentHITL, from y, n, Enter or Esc: while a plan is shown it gets
\* all of these keys.
ResolveCurrentHITL(decision) ==
  /\ awaitingHITL
  /\ hitlQueue # <<>>
  /\ hitlAnswer' = [hitlAnswer EXCEPT ![Head(hitlQueue)] = decision]
  /\ hitlQueue' = Tail(hitlQueue)
  /\ hitlRequest' = IF Tail(hitlQueue) = <<>> THEN NoCall ELSE Head(Tail(hitlQueue))
  /\ awaitingHITL' = (Tail(hitlQueue) # <<>>)
  /\ UNCHANGED <<pc, answer, permissionChan, lineVars, permVars, resetting, up, histVars>>

\* Mutant: the channel is closed without a level, and a receiver reads "".
ReplyClosesOnly(level) ==
  /\ permissionChan # NoCall
  /\ ~awaitingHITL
  /\ answer' = [answer EXCEPT ![permissionChan] = ""]
  /\ permissionChan' = NoCall
  /\ UNCHANGED <<pc, hitlAnswer, hitlQueue, hitlRequest, awaitingHITL, lineVars, permVars, resetting, up>>

\* The level goes to the channel of the prompt, which leaves the screen.
Reply(level) ==
  /\ permissionChan # NoCall
  /\ ~awaitingHITL
  /\ answer' = [answer EXCEPT ![permissionChan] = level]
  /\ permissionChan' = NoCall
  /\ UNCHANGED <<pc, hitlAnswer, hitlQueue, hitlRequest, awaitingHITL, lineVars, permVars, resetting, up>>

\* ApprovePermission, on Enter, with the level selected.
ApprovePermission(level) ==
  /\ Reply(level)
  /\ LET t == ToolOf[permissionChan] IN
       /\ consent' = CASE level \in {"always", "session"} -> consent \cup {t}
                       [] level = "never"                -> consent \ {t}
                       [] OTHER                          -> consent
       /\ late' = IF level # "never" THEN late
                   ELSE IF t \in sessionPerms \cup OnItsWay \/ StoredFor(t)
                     THEN late \cup {t} ELSE late \ {t}

\* DenyPermission, on Esc: the level sent is PermissionNever.
DenyPermission == Reply("never") /\ UNCHANGED histVars

\* submitPrompt, on Enter: the turn runs in a goroutine of its own.
SubmitPrompt ==
  /\ AtInputLine
  /\ \E c \in Calls : turn < Turn[c]
  /\ generating' = TRUE
  /\ turn' = turn + 1
  /\ UNCHANGED <<pc, hitlAnswer, answer, uiVars, permVars, resetting, up, histVars>>

\* A turn has returned, or the human cancels it: its calls are not waited for.
StopGenerating ==
  /\ generating
  /\ generating' = FALSE
  /\ UNCHANGED <<pc, hitlAnswer, answer, uiVars, turn, permVars, resetting, up, histVars>>

\* /permissions reset, the stored permissions first: when the file cannot be
\* written they are gone from memory, and the command ends there.
ResetAllPermissions ==
  /\ AtInputLine
  /\ permissions' = [t \in Tools |-> "once"]
  /\ resetting' \in {Tools, {}}
  /\ UNCHANGED <<pc, hitlAnswer, answer, uiVars, lineVars, sessionPerms, up, histVars>>

\* /permissions reset <tool>: an error of RemovePermission is ignored.
ResetToolPermission(t) ==
  /\ AtInputLine
  /\ permissions' = [permissions EXCEPT ![t] = "once"]
  /\ resetting' = {t}
  /\ UNCHANGED <<pc, hitlAnswer, answer, uiVars, lineVars, sessionPerms, up, histVars>>

\* The permissions that a withdrawal by reset does not reach.
Missed == {t \in resetting : StoredFor(t) \/ t \in OnItsWay}

\* Mutant: the command ends with the stored permissions.
ClearNothing ==
  /\ resetting # {}
  /\ resetting' = {}
  /\ consent' = consent \ resetting
  /\ late' = (late \ resetting) \cup Missed
  /\ UNCHANGED <<pc, hitlAnswer, answer, uiVars, lineVars, permVars, up>>

\* The session permissions, under r.mu; then the human reads that it is done.
ClearSession ==
  /\ resetting # {}
  /\ sessionPerms' = sessionPerms \ resetting
  /\ resetting' = {}
  /\ consent' = consent \ resetting
  /\ late' = (late \ resetting) \cup Missed
  /\ UNCHANGED <<pc, hitlAnswer, answer, uiVars, lineVars, permissions, up>>

------------------------------------------------------------------------------
CallStep(c) ==
  \/ Start(c) \/ EndsEarly(c) \/ PlanDecided(c)
  \/ CheckSession(c) \/ CheckStored(c) \/ KeepForSession(c) \/ ApplyAnswer(c)

UiStep(c) == HandleHITLRequest(c) \/ HandlePermissionRequest(c)

HumanDecidesPlan   == \E decision \in {"approved", "rejected"} : ResolveCurrentHITL(decision)
HumanAnswersPrompt == DenyPermission \/ \E level \in Levels : ApprovePermission(level)

PermNext ==
  /\ up
  /\ \/ \E c \in Calls : CallStep(c) \/ UiStep(c) \/ MapRace(c)
     \/ SubmitPrompt \/ StopGenerating
     \/ HumanDecidesPlan
     \/ HumanAnswersPrompt
     \/ ResetAllPermissions
     \/ \E t \in Tools : ResetToolPermission(t)
     \/ ClearSession

(* Goroutines that can move do, and the human decides every plan and       *)
(* answers every prompt that stays on the screen.  A message waits while   *)
(* a command runs, and senders on the channel of the UI are served in      *)
(* order: no run of commands keeps it out for ever.                        *)
PermSpec ==
  /\ PermInit /\ [][PermNext]_toolVars
  /\ \A c \in Calls : WF_toolVars(up /\ CallStep(c)) /\ SF_toolVars(up /\ UiStep(c))
  /\ WF_toolVars(up /\ ClearSession)
  /\ WF_toolVars(up /\ HumanDecidesPlan)
  /\ WF_toolVars(up /\ HumanAnswersPrompt)

------------------------------------------------------------------------------
PermTypeOK ==
  /\ pc \in [Calls -> CallPhases]
  /\ hitlAnswer \in [Calls -> {"none", "approved", "rejected"}]
  /\ answer \in [Calls -> Levels \cup {"none"}]
  /\ hitlQueue \in Seq(Calls)
  /\ hitlRequest \in Calls \cup {NoCall}
  /\ awaitingHITL \in BOOLEAN
  /\ permissionChan \in Calls \cup {NoCall}
  /\ generating \in BOOLEAN
  /\ turn \in Nat
  /\ sessionPerms \in SUBSET Tools
  /\ permissions \in [Tools -> Levels]
  /\ resetting \in SUBSET Tools
  /\ up \in BOOLEAN
  /\ consent \in SUBSET Tools
  /\ late \in SUBSET Tools

(* No plan is lost or decided twice: a call that waits has its decision in *)
(* its channel or stands in the queue exactly once, the plan on the screen *)
(* is the one the next key decides, and the flag that routes the keys says *)
(* whether there is one (model.go 2868-2900, update.go 1964-1989).         *)
PlansAccountedFor ==
  /\ \A c \in Calls :
       Cardinality({i \in DOMAIN hitlQueue : hitlQueue[i] = c})
         = (IF pc[c] = "planWait" /\ hitlAnswer[c] = "none" THEN 1 ELSE 0)
  /\ awaitingHITL <=> hitlQueue # <<>>
  /\ hitlRequest = (IF hitlQueue = <<>> THEN NoCall ELSE Head(hitlQueue))

(* The human's decision reaches the call whose plan is on the screen and   *)
(* no other, whatever arrived meanwhile: the overlay shows hitlRequest,    *)
(* the channel is taken from the queue (model.go 2871-2885).               *)
DecidesShownPlan ==
  [][\A c \in Calls : hitlAnswer'[c] # hitlAnswer[c] => c = hitlRequest]_toolVars

(* A permission is a human's, across both gates and their stored answers,  *)
(* and a quiet withdrawal holds: a call is let through only if its plan    *)
(* was approved when it needed one, and the human allowed this call, or    *)
(* allowed its tool and did not withdraw that by a reset or a never.       *)
(* The exception, in which the code does not keep what                     *)
(* docs/PERMISSIONS_GUIDE.md 28-31 and commands/registry.go 1697 promise,  *)
(* is a withdrawal that misses something: a never while a session          *)
(* permission stands (registry.go 986), and a permission answered or read, *)
(* and not stored yet, when the never or the reset comes (registry.go      *)
(* 996-1015).                                                              *)
QuietWithdrawalSticks ==
  [][\A c \in Calls : pc'[c] = "allowed" /\ pc[c] # "allowed" =>
       /\ c \in HighStakes => hitlAnswer[c] = "approved"
       /\ answer[c] \in {"always", "session", "once"} \/ ToolOf[c] \in consent \cup late]_toolVars

(* A plan request is decided and its call moves on, however many calls     *)
(* wait at the same time: the queue of model.go 2868-2900.                 *)
EveryPlanDecided ==
  \A c \in HighStakes : pc[c] = "planReady" ~> (pc[c] \notin {"planReady", "planWait"} \/ ~up)

(* "Wait for user response (blocking this background goroutine)"           *)
(* (model.go 2819): with a human who answers every prompt that stays on    *)
(* the screen, the response comes.                                         *)
EveryPromptAnswered ==
  \A c \in Calls : pc[c] = "ask" ~> (pc[c] \in Ended \/ ~up)

==============================================================================
