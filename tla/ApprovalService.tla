--------------------------- MODULE ApprovalService ---------------------------
(***************************************************************************)
(* What ApprovalRuntime promises its callers, without its lock, semaphore, *)
(* channels and goroutines.  A question is named by the request it was     *)
(* first asked for.  There is at most one open question per key and no     *)
(* more than MaxInflight in all; a request is answered by the question it  *)
(* asked or joined while that was open, or gets an excuse; after Shutdown  *)
(* nothing is asked or joined any more.                                    *)
(***************************************************************************)
EXTENDS Naturals, FiniteSets

CONSTANTS
  Reqs,         \* requests for an approval
  Keys,         \* approval keys
  MaxInflight,  \* how many questions may be open at a time
  Answers,      \* what a question may be answered with
  Excuses,      \* what a request may get in place of an answer
  NoReq,        \* no question
  NoAnswer      \* no answer yet

VARIABLES
  key,      \* the key each request is for
  open,     \* the open questions
  askedAs,  \* the question a request has asked or joined
  reply,    \* the answer of each question
  given,    \* what each request was given
  down      \* Shutdown was called

svcVars == <<key, open, askedAs, reply, given, down>>

ServiceInit ==
  /\ key \in [Reqs -> Keys]
  /\ open = {}
  /\ askedAs = [r \in Reqs |-> NoReq]
  /\ reply = [r \in Reqs |-> NoAnswer]
  /\ given = [r \in Reqs |-> NoAnswer]
  /\ down = FALSE

\* The only question that is open for its key.
Ask(r) ==
  /\ ~down
  /\ r \notin open
  /\ askedAs[r] = NoReq /\ given[r] = NoAnswer
  /\ \A q \in open : key[q] # key[r]
  /\ Cardinality(open) < MaxInflight
  /\ open' = open \cup {r}
  /\ askedAs' = [askedAs EXCEPT ![r] = r]
  /\ UNCHANGED <<key, reply, given, down>>

\* The answer that is on its way may be joined as well: q is still open.
JoinQuestion(r, q) ==
  /\ ~down
  /\ askedAs[r] = NoReq /\ given[r] = NoAnswer
  /\ q \in open
  /\ key[q] = key[r]
  /\ askedAs' = [askedAs EXCEPT ![r] = q]
  /\ UNCHANGED <<key, open, reply, given, down>>

Answer(q, a) ==
  /\ q \in open
  /\ reply[q] = NoAnswer
  /\ reply' = [reply EXCEPT ![q] = a]
  /\ UNCHANGED <<key, open, askedAs, given, down>>

CloseQuestion(q) ==
  /\ q \in open
  /\ reply[q] # NoAnswer
  /\ open' = open \ {q}
  /\ UNCHANGED <<key, askedAs, reply, given, down>>

Give(r, a) ==
  /\ given[r] = NoAnswer
  /\ given' = [given EXCEPT ![r] = a]
  /\ UNCHANGED <<key, open, askedAs, reply, down>>

GiveAnswer(r) ==
  /\ askedAs[r] # NoReq
  /\ reply[askedAs[r]] # NoAnswer
  /\ Give(r, reply[askedAs[r]])

Excuse(r) == \E e \in Excuses : Give(r, e)

StopService ==
  /\ ~down
  /\ down' = TRUE
  /\ UNCHANGED <<key, open, askedAs, reply, given>>

ServiceNext ==
  \/ \E r \in Reqs : Ask(r) \/ CloseQuestion(r) \/ GiveAnswer(r) \/ Excuse(r)
  \/ \E r, q \in Reqs : JoinQuestion(r, q)
  \/ \E q \in Reqs, a \in Answers : Answer(q, a)
  \/ StopService

ServiceSpec == ServiceInit /\ [][ServiceNext]_svcVars

==============================================================================
