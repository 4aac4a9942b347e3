-------------------------- MODULE GovernanceApproval --------------------------
(***************************************************************************)
(* Human approval of governed actions: Governor.RequestHumanApproval       *)
(* (pkg/governance/governor.go) with the approval cache of the session     *)
(* (approval_cache.go), over the approval runtime, whose callback ends in  *)
(* Registry.RequestApproval (pkg/tools/registry.go).                       *)
(*                                                                         *)
(* A call looks into the cache, runs the callback through the runtime      *)
(* (alone, or joining the worker of an earlier call), puts what it got     *)
(* into the cache and returns it.  The callback runs with the context of   *)
(* the call that started it, looks at the permissions of the tool, asks    *)
(* the human, and drops an answer that comes after its context ended.      *)
(***************************************************************************)
EXTENDS ApprovalRuntime

CONSTANTS
  Tools,    \* tool names
  ToolOf    \* the tool an approval key is about

VARIABLES
  call,          \* where each call of RequestHumanApproval stands
  approval,      \* what it returned
  fn,            \* where the callback of each worker stands
  level,         \* the answer of the human, once it has been taken
  sessionPerms,  \* Registry.sessionPerms: tools allowed for the session
  stored,        \* PermissionManager: the level stored for each tool
  cache,         \* ApprovalCache: the keys of its three maps
  attended,      \* Registry.permissionHandler # nil
  earlier,       \* history: the stored levels the session began with
  settled        \* history: keys that were given a standing answer

govOnly == <<call, approval, fn, level, sessionPerms, stored, cache, attended,
             earlier, settled>>
govVars == <<rtVars, govOnly>>

Levels     == {"always", "session", "once", "never"}
Standing   == {"always", "session", "never"}
CallPlaces == {"start", "run", "done"}
FnPlaces   == {"session", "manager", "prompt", "store", "return", "over", "panicked"}

Granted(s) == [decision |-> "GRANTED", scope |-> s]
Refused    == [decision |-> "DENIED", scope |-> "NEVER"]

\* The result each level of permission stands for.
ResultOf(l) ==
  CASE l = "always"  -> Granted("ALWAYS")
    [] l = "session" -> Granted("SESSION")
    [] l = "once"    -> Granted("ONCE")
    [] l = "never"   -> Refused

FnAnswers == {ResultOf(l) : l \in Levels}
             \cup {Once("TIMEOUT"), Once("CANCELLED"), Once("UNAVAILABLE")}

ASSUME GovernanceAssumption ==
  /\ ToolOf \in [Keys -> Tools]
  /\ FnAnswers \subseteq FnResults

ToolFor(r) == ToolOf[key[r]]

GovInit ==
  /\ Init
  /\ call = [r \in Reqs |-> "start"]
  /\ approval = [r \in Reqs |-> NoResult]
  /\ fn = [r \in Reqs |-> "session"]
  /\ level = [r \in Reqs |-> ""]
  /\ sessionPerms = {}
  /\ stored \in [Tools -> Levels]
  /\ cache = [session |-> {}, always |-> {}, never |-> {}]
  /\ attended \in BOOLEAN
  /\ earlier = stored
  /\ settled = {}

------------------------------------------------------------------------------
(* RequestHumanApproval.                                                   *)

\* Get: never before always before session.
Cached(k) == k \in cache.never \cup cache.always \cup cache.session
CachedResult(k) ==
  IF k \in cache.never THEN Refused
  ELSE Granted(IF k \in cache.always THEN "ALWAYS" ELSE "SESSION")

\* Mutant: Put remembers every grant for the session.
PutRemembersOnce(k, res) ==
  [cache EXCEPT !.session = IF res.decision = "GRANTED" THEN @ \cup {k} ELSE @,
                !.never   = IF res = Refused THEN @ \cup {k} ELSE @]

\* Mutant: Put takes everything that is not a grant for a refusal.
PutTimeoutAsNever(k, res) ==
  [cache EXCEPT !.session = IF res = Granted("SESSION") THEN @ \cup {k} ELSE @,
                !.always  = IF res = Granted("ALWAYS") THEN @ \cup {k} ELSE @,
                !.never   = IF res.decision # "GRANTED" THEN @ \cup {k} ELSE @]

\* Mutant: answers are remembered by tool instead of by key.
PutByTool(k, res) ==
  [cache EXCEPT !.session = IF res = Granted("SESSION") THEN @ \cup {ToolOf[k]} ELSE @,
                !.always  = IF res = Granted("ALWAYS") THEN @ \cup {ToolOf[k]} ELSE @,
                !.never   = IF res = Refused THEN @ \cup {ToolOf[k]} ELSE @]

\* Put: standing grants, and every answer of scope never.
PutResult(k, res) ==
  [cache EXCEPT !.session = IF res = Granted("SESSION") THEN @ \cup {k} ELSE @,
                !.always  = IF res = Granted("ALWAYS") THEN @ \cup {k} ELSE @,
                !.never   = IF res.scope = "NEVER" THEN @ \cup {k} ELSE @]

CacheGet(r) ==
  /\ call[r] = "start"
  /\ \/ /\ Cached(key[r])
        /\ call' = [call EXCEPT ![r] = "done"]
        /\ approval' = [approval EXCEPT ![r] = CachedResult(key[r])]
     \/ /\ ~Cached(key[r])
        /\ call' = [call EXCEPT ![r] = "run"]
        /\ UNCHANGED approval
  /\ UNCHANGED <<rtVars, fn, level, sessionPerms, stored, cache, attended,
                 earlier, settled>>

\* The call enters ApprovalRuntime.Run.
EnterRun(r) ==
  /\ call[r] = "run"
  /\ Lookup(r)
  /\ UNCHANGED govOnly

\* Run has returned: its result is cached and returned, and the deferred
\* cancel ends the context the callback may still be using.
CachePut(r) ==
  /\ call[r] = "run"
  /\ pc[r] = "returned"
  /\ cache' = PutResult(key[r], outcome[r])
  /\ approval' = [approval EXCEPT ![r] = outcome[r]]
  /\ call' = [call EXCEPT ![r] = "done"]
  /\ UNCHANGED <<rtVars, fn, level, sessionPerms, stored, attended, earlier,
                 settled>>

------------------------------------------------------------------------------
(* Registry.RequestApproval, run by the worker of call w.  Each step is one  *)
(* look at shared state; what the callback only does for itself goes with   *)
(* the look before it.                                                     *)

\* The state of approvalCtx of the call that started the worker.
FnCtx(w) == IF ctx[w] = "live" /\ call[w] = "done" THEN "cancelled" ELSE ctx[w]
FnCtxResult(w) == Once(IF FnCtx(w) = "deadline" THEN "TIMEOUT" ELSE "CANCELLED")

InFn(w, place) == worker[w] = "running" /\ fn[w] = place

\* The callback returns: its result is stored and done is closed.
FnConcludes(w, res) == FnReturns(w, res) /\ fn' = [fn EXCEPT ![w] = "over"]

FnGoesTo(w, place) == fn' = [fn EXCEPT ![w] = place] /\ UNCHANGED rtVars

\* The session permission of the tool, read under r.mu.
CheckSession(w) ==
  /\ InFn(w, "session")
  /\ \/ ToolFor(w) \in sessionPerms /\ FnConcludes(w, Granted("SESSION"))
     \/ ToolFor(w) \notin sessionPerms /\ FnGoesTo(w, "manager")
  /\ UNCHANGED <<call, approval, level, sessionPerms, stored, cache, attended,
                 earlier, settled>>

\* Without a standing permission the human is needed: there must be one, and
\* nobody is asked for a call whose context has ended.
AskHuman(w) ==
  \/ ~attended /\ FnConcludes(w, Once("UNAVAILABLE"))
  \/ attended /\ FnCtx(w) # "live" /\ FnConcludes(w, FnCtxResult(w))
  \/ attended /\ FnCtx(w) = "live" /\ FnGoesTo(w, "prompt")

\* Mutant: a stored refusal is not looked at.
CheckManagerNoNever(w) ==
  /\ InFn(w, "manager")
  /\ \/ /\ stored[ToolFor(w)] \in {"always", "session"}
        /\ FnConcludes(w, ResultOf(stored[ToolFor(w)]))
     \/ stored[ToolFor(w)] \in {"once", "never"} /\ AskHuman(w)
  /\ UNCHANGED <<call, approval, level, sessionPerms, stored, cache, attended,
                 earlier, settled>>

\* The stored permission of the tool.
CheckManager(w) ==
  /\ InFn(w, "manager")
  /\ \/ /\ stored[ToolFor(w)] \in Standing
        /\ FnConcludes(w, ResultOf(stored[ToolFor(w)]))
     \/ stored[ToolFor(w)] = "once" /\ AskHuman(w)
  /\ UNCHANGED <<call, approval, level, sessionPerms, stored, cache, attended,
                 earlier, settled>>

\* The handler returns the human's answer.  It is dropped when it came after
\* the context had ended, and is stored from here on whatever happens to the
\* context.  The human may take any time, or never answer.
HumanAnswers(w, l) ==
  /\ InFn(w, "prompt")
  /\ \/ /\ FnCtx(w) # "live"
        /\ FnConcludes(w, FnCtxResult(w))
        /\ UNCHANGED <<level, settled>>
     \/ /\ FnCtx(w) = "live"
        /\ FnGoesTo(w, "store")
        /\ level' = [level EXCEPT ![w] = l]
        /\ settled' = IF l \in Standing THEN settled \cup {key[w]} ELSE settled
  /\ UNCHANGED <<call, approval, sessionPerms, stored, cache, attended, earlier>>

\* The answer becomes a permission of the tool, under pm.mu or r.mu.  There
\* is no other level: a handler that fails to ask answers never.
StoreAnswer(w) ==
  /\ InFn(w, "store")
  /\ FnGoesTo(w, "return")
  /\ stored' = IF level[w] \in {"always", "never"}
               THEN [stored EXCEPT ![ToolFor(w)] = level[w]] ELSE stored
  /\ sessionPerms' = IF level[w] = "session"
                     THEN sessionPerms \cup {ToolFor(w)} ELSE sessionPerms
  /\ UNCHANGED <<call, approval, level, cache, attended, earlier, settled>>

\* The callback returns what the answer stands for.
AnswerReturned(w) ==
  /\ InFn(w, "return")
  /\ FnConcludes(w, ResultOf(level[w]))
  /\ UNCHANGED <<call, approval, level, sessionPerms, stored, cache, attended,
                 earlier, settled>>

\* The permission handler may panic: runInflight recovers and stores that
\* nobody was there.
HandlerPanics(w) ==
  /\ InFn(w, "prompt")
  /\ FnPanics(w)
  /\ fn' = [fn EXCEPT ![w] = "panicked"]
  /\ UNCHANGED <<call, approval, level, sessionPerms, stored, cache, attended,
                 earlier, settled>>

FnStep(w) == CheckSession(w) \/ CheckManager(w) \/ StoreAnswer(w) \/ AnswerReturned(w)

------------------------------------------------------------------------------
RuntimeStep(r) == (RequestStep(r) \/ WorkerCleanup(r)) /\ UNCHANGED govOnly

GovNext ==
  \/ \E r \in Reqs : CacheGet(r) \/ EnterRun(r) \/ CachePut(r) \/ RuntimeStep(r)
  \/ \E w \in Reqs : FnStep(w) \/ HandlerPanics(w)
  \/ \E w \in Reqs, l \in Levels : HumanAnswers(w, l)
  \/ \E r \in Reqs, how \in {"deadline", "cancelled"} : CtxEnds(r, how) /\ UNCHANGED govOnly
  \/ Shutdown /\ UNCHANGED govOnly

GovSpec == GovInit /\ [][GovNext]_govVars

------------------------------------------------------------------------------
GovTypeOK ==
  /\ call \in [Reqs -> CallPlaces]
  /\ approval \in [Reqs -> Results \cup {NoResult}]
  /\ fn \in [Reqs -> FnPlaces]
  /\ level \in [Reqs -> Levels \cup {""}]
  /\ sessionPerms \subseteq Tools
  /\ stored \in [Tools -> Levels]
  /\ cache \in [session : SUBSET Keys, always : SUBSET Keys, never : SUBSET Keys]
  /\ attended \in BOOLEAN
  /\ earlier \in [Tools -> Levels]
  /\ settled \subseteq Keys

\* The human gave answer l to the prompt of worker w, and it was taken.
Taken(w, l) == level[w] = l /\ fn[w] \in {"store", "return", "over"}

(* A call is granted only with the human behind it: a level stored by an   *)
(* earlier session, a standing answer given for the same tool, or an       *)
(* answer for this once, and then only to the calls that waited for that   *)
(* very prompt.  Neither the cache, nor joining a worker, nor an answer    *)
(* that came too late grants anything (approval_cache.go 62-86,            *)
(* registry.go 1308-1346).                                                 *)
GrantHasConsent ==
  \A r \in Reqs : approval[r].decision = "GRANTED" =>
    \/ earlier[ToolFor(r)] \in {"always", "session"}
    \/ \E w \in Reqs : \/ /\ Taken(w, "always") \/ Taken(w, "session")
                          /\ ToolFor(w) = ToolFor(r)
                       \/ Taken(w, "once") /\ waitOn[r] = w

(* A call that is turned down has a reason of its own or of the call it    *)
(* joined: no worker's expiry reaches a call that did not wait for it, and *)
(* no refusal is made up (governor.go 203-220).                            *)
DenialHasCause ==
  \A r \in Reqs : call[r] = "done" =>
    LET own(s)    == ctx[r] = s
        leader(s) == waitOn[r] # NoReq /\ ctx[waitOn[r]] = s
    IN  /\ approval[r].decision = "TIMEOUT" => own("deadline") \/ leader("deadline")
        /\ approval[r].decision = "CANCELLED" =>
             own("cancelled") \/ leader("cancelled") \/ shuttingDown
        /\ approval[r].decision = "DENIED" =>
             \/ earlier[ToolFor(r)] = "never"
             \/ \E w \in Reqs : Taken(w, "never") /\ ToolFor(w) = ToolFor(r)
        /\ approval[r].decision = "UNAVAILABLE" =>
             ~attended \/ (waitOn[r] # NoReq /\ fn[waitOn[r]] = "panicked")

(* The human never sees two prompts for the same action at once.           *)
OnePromptPerKey ==
  \A v, w \in Reqs : InFn(v, "prompt") /\ InFn(w, "prompt") /\ key[v] = key[w] => v = w

(* A standing answer settles its key: nobody is asked about it again,      *)
(* although the cache is filled only after the worker has gone, by callers *)
(* that may have given up by then, and a new worker for the key may start  *)
(* in between (governor.go 233, approval_runtime.go 214).                  *)
SettledKeyNotAskedAgain ==
  [][\A w \in Reqs : ~InFn(w, "prompt") /\ InFn(w, "prompt")' => key[w] \notin settled]_govVars

==============================================================================
