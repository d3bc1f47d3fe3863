------------------------- MODULE AuditPortalProofs -------------------------
(***************************************************************************)
(* Theorems about the audit portal and the audit routes, for any tabs,     *)
(* users, frontends, candidates and number of votes, with and without      *)
(* network failures.                                                       *)
(*                                                                         *)
(* The sums of the votes are folds over the candidates; what they are for  *)
(* every set of candidates is proved first, by induction over its subsets. *)
(***************************************************************************)
EXTENDS AuditPortal, FiniteSetTheorems, WellFoundedInduction, TLAPS

-----------------------------------------------------------------------------
(* Sums                                                                    *)

LEMMA LeastNumber ==
    ASSUME NEW N, N \subseteq Nat, N # {}
    PROVE  \E m \in N : \A k \in N : m <= k
<1> DEFINE R == {p \in Nat \X Nat : p[1] < p[2]}
<1>1. OpToRel(<, Nat) = R
  BY DEF OpToRel
<1>2. IsWellFoundedOn(R, Nat)
  BY <1>1, NatLessThanWellFounded
<1>3. \A k, m \in Nat : k < m => <<k, m>> \in R
  OBVIOUS
<1> HIDE DEF R
<1>4. PICK m \in N : \A k \in N : ~ (<<k, m>> \in R)
  BY <1>2, WFMin
<1>5. \A k \in N : ~ (k < m)
  BY <1>3, <1>4
<1> QED
  BY <1>5

(* Among some subsets of a finite set there is a smallest one: induction   *)
(* over finite sets, as the provers can use it.                            *)
LEMMA SmallestSubset ==
    ASSUME NEW S, IsFiniteSet(S), NEW B, B \subseteq SUBSET S, B # {}
    PROVE  \E m \in B : \A x \in m : m \ {x} \notin B
<1>1. \A s \in B : IsFiniteSet(s) /\ Cardinality(s) \in Nat
  BY FS_Subset, FS_CardinalityType
<1> DEFINE N == {Cardinality(s) : s \in B}
<1>2. N \subseteq Nat /\ N # {}
  BY <1>1
<1>3. PICK n \in N : \A k \in N : n <= k
  <2> HIDE DEF N
  <2> QED
    BY <1>2, LeastNumber
<1>4. PICK m \in B : n = Cardinality(m)
  OBVIOUS
<1>5. ASSUME NEW x \in m, m \ {x} \in B
      PROVE  FALSE
  <2>1. Cardinality(m \ {x}) = Cardinality(m) - 1
    BY <1>1, FS_RemoveElement
  <2>2. n <= Cardinality(m \ {x})
    BY <1>3, <1>5
  <2> QED
    BY <1>1, <1>4, <2>1, <2>2
<1> QED
  BY <1>5

(* What the sum of fun over each subset of S is, from smaller subsets.     *)
Pick(s) == CHOOSE x \in s : TRUE
Adds(f, fun, s) == IF s = {} THEN 0 ELSE fun[Pick(s)] + f[s \ {Pick(s)}]
Sums(f, fun, S) == f = [s \in SUBSET S |-> Adds(f, fun, s)]

LEMMA PickIn == \A s : s # {} => Pick(s) \in s
  BY DEF Pick

LEMMA SumsExist ==
    ASSUME NEW S, IsFiniteSet(S), NEW fun, \A x \in S : fun[x] \in Nat
    PROVE  \E f \in [SUBSET S -> Nat] : Sums(f, fun, S)
<1>1. \A s \in SUBSET S : /\ IsFiniteSet(s) /\ Cardinality(s) \in Nat
                          /\ Cardinality(s) <= Cardinality(S)
  BY FS_Subset, FS_CardinalityType
<1>2. \A s \in SUBSET S : Cardinality(s) = 0 <=> s = {}
  BY <1>1, FS_EmptySet
<1>3. \A s \in SUBSET S : s # {} =>
          /\ Pick(s) \in S /\ s \ {Pick(s)} \in SUBSET S
          /\ Cardinality(s \ {Pick(s)}) = Cardinality(s) - 1
  BY <1>1, PickIn, FS_RemoveElement
<1> DEFINE Good(n) == \E f \in [SUBSET S -> Nat] :
               \A s \in SUBSET S : Cardinality(s) <= n => f[s] = Adds(f, fun, s)
           Bad == {n \in Nat : ~Good(n)}
<1>4. Good(0)
  <2> DEFINE f == [s \in SUBSET S |-> 0]
  <2>1. f \in [SUBSET S -> Nat]
    OBVIOUS
  <2>2. \A s \in SUBSET S : Cardinality(s) <= 0 => f[s] = Adds(f, fun, s)
    BY <1>1, <1>2 DEF Adds
  <2> QED
    BY <2>1, <2>2
<1>5. ASSUME NEW k \in Nat, Good(k)
      PROVE  Good(k + 1)
  <2>1. PICK f \in [SUBSET S -> Nat] :
            \A s \in SUBSET S : Cardinality(s) <= k => f[s] = Adds(f, fun, s)
    BY <1>5
  <2> DEFINE g == [s \in SUBSET S |->
                      IF Cardinality(s) <= k THEN f[s] ELSE Adds(f, fun, s)]
  <2>2. ASSUME NEW s \in SUBSET S
        PROVE  Adds(f, fun, s) \in Nat
    <3>1. CASE s = {}
      BY <3>1 DEF Adds
    <3>2. CASE s # {}
      <4>1. fun[Pick(s)] \in Nat
        BY <1>3, <3>2
      <4>2. f[s \ {Pick(s)}] \in Nat
        BY <1>3, <3>2
      <4>3. Adds(f, fun, s) = fun[Pick(s)] + f[s \ {Pick(s)}]
        BY <3>2 DEF Adds
      <4> QED
        BY <4>1, <4>2, <4>3
    <3> QED
      BY <3>1, <3>2
  <2>3. g \in [SUBSET S -> Nat]
    BY <2>2
  <2>4. \A s \in SUBSET S : Cardinality(s) <= k => g[s] = f[s]
    OBVIOUS
  <2>5. ASSUME NEW s \in SUBSET S, Cardinality(s) <= k + 1
        PROVE  g[s] = Adds(g, fun, s)
    <3>1. g[s] = Adds(f, fun, s)
      BY <2>1
    <3> HIDE DEF g
    <3>2. CASE s = {}
      BY <3>1, <3>2 DEF Adds
    <3>3. CASE s # {}
      <4>1. Cardinality(s \ {Pick(s)}) <= k
        BY <1>1, <1>3, <2>5, <3>3
      <4>2. g[s \ {Pick(s)}] = f[s \ {Pick(s)}]
        BY <1>3, <2>4, <3>3, <4>1
      <4> QED
        BY <3>1, <3>3, <4>2 DEF Adds
    <3> QED
      BY <3>2, <3>3
  <2> HIDE DEF g
  <2> QED
    BY <2>3, <2>5
<1>6. ASSUME Bad # {}
      PROVE  FALSE
  <2>1. PICK n \in Bad : \A k \in Bad : n <= k
    <3>1. Bad \subseteq Nat
      OBVIOUS
    <3> HIDE DEF Bad
    <3> QED
      BY <1>6, <3>1, LeastNumber
  <2>2. n # 0
    BY <1>4
  <2>3. n - 1 \in Nat /\ n - 1 \notin Bad
    <3>1. n \in Nat
      OBVIOUS
    <3> HIDE DEF Bad
    <3> QED
      BY <2>1, <2>2, <3>1
  <2>4. Good(n - 1)
    BY <2>3
  <2> HIDE DEF Good
  <2>5. Good((n - 1) + 1)
    BY <1>5, <2>3, <2>4
  <2>6. (n - 1) + 1 = n
    OBVIOUS
  <2> QED
    BY <2>5, <2>6
<1>7. Good(Cardinality(S))
  BY <1>1, <1>6
<1>8. PICK f \in [SUBSET S -> Nat] :
          \A s \in SUBSET S : Cardinality(s) <= Cardinality(S)
              => f[s] = Adds(f, fun, s)
  BY <1>7
<1>9. \A s \in SUBSET S : f[s] = Adds(f, fun, s)
  BY <1>1, <1>8
<1>10. f = [s \in SUBSET S |-> Adds(f, fun, s)]
  BY <1>9
<1> QED
  BY <1>10 DEF Sums

(* Two such functions agree wherever both tell a sum.                      *)
LEMMA SumsAgree ==
    ASSUME NEW S, IsFiniteSet(S), NEW f, NEW g, NEW fun, NEW gun,
           \A x \in S : fun[x] = gun[x],
           \A s \in SUBSET S : f[s] = Adds(f, fun, s) /\ g[s] = Adds(g, gun, s)
    PROVE  f[S] = g[S]
<1> DEFINE B == {s \in SUBSET S : f[s] # g[s]}
<1>1. ASSUME B # {}
      PROVE  FALSE
  <2>1. PICK m \in B : \A x \in m : m \ {x} \notin B
    <3>1. B \subseteq SUBSET S
      OBVIOUS
    <3> HIDE DEF B
    <3> QED
      BY <1>1, <3>1, SmallestSubset
  <2>2. m # {}
    BY DEF Adds
  <2>3. Pick(m) \in m /\ Pick(m) \in S
    BY <2>2, PickIn
  <2>4. f[m \ {Pick(m)}] = g[m \ {Pick(m)}]
    BY <2>1, <2>3
  <2>5. f[m] = g[m]
    BY <2>2, <2>3, <2>4 DEF Adds
  <2> QED
    BY <2>5
<1> QED
  BY <1>1

LEMMA SumIsSums ==
    ASSUME NEW fun, NEW S
    PROVE  SumFunctionOnSet(fun, S) = (CHOOSE f : Sums(f, fun, S))[S]
  BY DEF SumFunctionOnSet, FoldFunctionOnSet, MapThenFoldSet, Sums, Adds, Pick

(* So the sum over any subset of T is told by one function.                *)
Tells(f, fun, T) ==
    \A s \in SUBSET T : f[s] = Adds(f, fun, s) /\ SumFunctionOnSet(fun, s) = f[s]

LEMMA SumsTell ==
    ASSUME NEW T, IsFiniteSet(T), NEW fun, \A x \in T : fun[x] \in Nat
    PROVE  \E f \in [SUBSET T -> Nat] : Tells(f, fun, T)
<1>1. PICK f \in [SUBSET T -> Nat] : Sums(f, fun, T)
  BY SumsExist
<1>2. \A s \in SUBSET T : f[s] = Adds(f, fun, s)
  BY <1>1 DEF Sums
<1>3. ASSUME NEW S \in SUBSET T
      PROVE  SumFunctionOnSet(fun, S) = f[S]
  <2>1. IsFiniteSet(S) /\ \A x \in S : fun[x] \in Nat
    BY FS_Subset
  <2>2. \E g : Sums(g, fun, S)
    BY <2>1, SumsExist
  <2>3. PICK g : g = CHOOSE h : Sums(h, fun, S)
    OBVIOUS
  <2>4. Sums(g, fun, S)
    BY <2>2, <2>3
  <2>5. \A s \in SUBSET S : g[s] = Adds(g, fun, s)
    BY <2>4 DEF Sums
  <2>6. \A s \in SUBSET S : f[s] = Adds(f, fun, s)
    BY <1>2
  <2>7. g[S] = f[S]
    BY <2>1, <2>5, <2>6, SumsAgree
  <2> QED
    BY <2>3, <2>7, SumIsSums
<1> QED
  BY <1>2, <1>3 DEF Tells

LEMMA SumType ==
    ASSUME NEW T, IsFiniteSet(T), NEW fun, \A x \in T : fun[x] \in Nat,
           NEW S \in SUBSET T
    PROVE  SumFunctionOnSet(fun, S) \in Nat
<1>1. PICK f \in [SUBSET T -> Nat] : Tells(f, fun, T)
  BY SumsTell
<1> QED
  BY <1>1 DEF Tells

(* The element added last may be any one.                                  *)
LEMMA SumRemove ==
    ASSUME NEW T, IsFiniteSet(T), NEW fun, \A x \in T : fun[x] \in Nat,
           NEW S \in SUBSET T, NEW x \in S
    PROVE  SumFunctionOnSet(fun, S) = fun[x] + SumFunctionOnSet(fun, S \ {x})
<1>1. PICK f \in [SUBSET T -> Nat] : Tells(f, fun, T)
  BY SumsTell
<1> DEFINE B == {s \in SUBSET S : \E z \in s : f[s] # fun[z] + f[s \ {z}]}
<1>2. ASSUME B # {}
      PROVE  FALSE
  <2>1. PICK m \in B : \A y \in m : m \ {y} \notin B
    <3>1. B \subseteq SUBSET S /\ IsFiniteSet(S)
      BY FS_Subset
    <3> HIDE DEF B
    <3> QED
      BY <1>2, <3>1, SmallestSubset
  <2>2. PICK z \in m : f[m] # fun[z] + f[m \ {z}]
    OBVIOUS
  <2>3. PICK y : y = Pick(m)
    OBVIOUS
  <2>4. m \in SUBSET T /\ m \in SUBSET S /\ y \in m
    BY <2>3, PickIn
  <2>5. f[m] = fun[y] + f[m \ {y}]
    <3>1. f[m] = Adds(f, fun, m)
      BY <1>1, <2>4 DEF Tells
    <3> QED
      BY <2>3, <2>4, <3>1 DEF Adds
  <2>6. y # z
    BY <2>2, <2>5
  <2>7. f[m \ {y}] = fun[z] + f[(m \ {y}) \ {z}]
    BY <2>1, <2>4, <2>6
  <2>8. f[m \ {z}] = fun[y] + f[(m \ {z}) \ {y}]
    BY <2>1, <2>4, <2>6
  <2>9. (m \ {y}) \ {z} = (m \ {z}) \ {y}
    OBVIOUS
  <2>10. PICK rest \in Nat : rest = f[(m \ {z}) \ {y}]
    BY <2>4
  <2>11. fun[y] \in Nat /\ fun[z] \in Nat
    BY <2>4
  <2>12. fun[y] + (fun[z] + rest) = fun[z] + (fun[y] + rest)
    BY <2>11
  <2> QED
    BY <2>2, <2>5, <2>7, <2>8, <2>9, <2>10, <2>12
<1>3. f[S] = fun[x] + f[S \ {x}]
  BY <1>2
<1> QED
  BY <1>1, <1>3 DEF Tells

(* Elements that add nothing may be left out.                              *)
LEMMA SumZeros ==
    ASSUME NEW T, IsFiniteSet(T), NEW fun, \A x \in T : fun[x] \in Nat,
           NEW S \in SUBSET T, \A x \in T \ S : fun[x] = 0
    PROVE  SumFunctionOnSet(fun, T) = SumFunctionOnSet(fun, S)
<1>1. PICK f \in [SUBSET T -> Nat] : Tells(f, fun, T)
  BY SumsTell
<1> DEFINE B == {s \in SUBSET T : S \subseteq s /\ f[s] # f[S]}
<1>2. ASSUME B # {}
      PROVE  FALSE
  <2>1. PICK m \in B : \A y \in m : m \ {y} \notin B
    <3>1. B \subseteq SUBSET T
      OBVIOUS
    <3> HIDE DEF B
    <3> QED
      BY <1>2, <3>1, SmallestSubset
  <2>2. PICK x \in m : x \notin S
    OBVIOUS
  <2>3. f[m] = fun[x] + f[m \ {x}]
    <3>1. SumFunctionOnSet(fun, m) = fun[x] + SumFunctionOnSet(fun, m \ {x})
      BY SumRemove
    <3> QED
      BY <1>1, <3>1 DEF Tells
  <2>4. f[m \ {x}] = f[S]
    BY <2>1, <2>2
  <2>5. fun[x] = 0 /\ f[S] \in Nat
    BY <2>2
  <2> QED
    BY <2>3, <2>4, <2>5
<1>3. f[T] = f[S]
  BY <1>2
<1> QED
  BY <1>1, <1>3 DEF Tells

(* The sum of what two functions agree on is the same.                     *)
LEMMA SumSame ==
    ASSUME NEW S, IsFiniteSet(S), NEW fun, NEW gun,
           \A x \in S : fun[x] \in Nat /\ gun[x] = fun[x]
    PROVE  SumFunctionOnSet(gun, S) = SumFunctionOnSet(fun, S)
<1>1. PICK f \in [SUBSET S -> Nat] : Tells(f, fun, S)
  BY SumsTell
<1>2. PICK g \in [SUBSET S -> Nat] : Tells(g, gun, S)
  BY SumsTell
<1>3. f[S] = g[S]
  BY <1>1, <1>2, SumsAgree DEF Tells
<1> QED
  BY <1>1, <1>2, <1>3 DEF Tells

(* One more vote for a candidate is one more vote.                         *)
LEMMA SumOneMore ==
    ASSUME NEW T, IsFiniteSet(T), NEW fun \in [T -> Nat], NEW x \in T
    PROVE  SumFunctionOnSet([fun EXCEPT ![x] = @ + 1], T)
               = SumFunctionOnSet(fun, T) + 1
<1>1. PICK gun : gun = [fun EXCEPT ![x] = @ + 1]
  OBVIOUS
<1>2. /\ \A y \in T : gun[y] \in Nat /\ fun[y] \in Nat
      /\ gun[x] = fun[x] + 1
      /\ \A y \in T \ {x} : gun[y] = fun[y]
  BY <1>1
<1>3. IsFiniteSet(T \ {x})
  BY FS_RemoveElement
<1>4. SumFunctionOnSet(gun, T \ {x}) = SumFunctionOnSet(fun, T \ {x})
  BY <1>2, <1>3, SumSame
<1>5. /\ SumFunctionOnSet(gun, T) = gun[x] + SumFunctionOnSet(gun, T \ {x})
      /\ SumFunctionOnSet(fun, T) = fun[x] + SumFunctionOnSet(fun, T \ {x})
  BY <1>2, SumRemove
<1>6. SumFunctionOnSet(fun, T \ {x}) \in Nat
  BY <1>2, SumType
<1>7. \A a, b \in Nat : (a + 1) + b = (a + b) + 1
  OBVIOUS
<1> QED
  BY <1>1, <1>2, <1>4, <1>5, <1>6, <1>7

-----------------------------------------------------------------------------
(* What holds of the portal at all times.                                  *)

Context == [at : {"none", "loading", "shown"}, hasToken : BOOLEAN,
            token : MayHold, status : Approvals \union {"unread", "failed"}]
Reading == [kind : Kinds, candidates : SUBSET Candidates,
            approvedSince : BOOLEAN, votesBefore : Nat]
Answer == [kind : Kinds \union {"none", "error"}, total : Nat, sum : Nat]

(* The backend's steps of a request, once the caller is known.             *)
Trusted == {"row", "candidates", "votes", "chain"}

PortalTypes ==
    /\ org \in [Users -> Approvals]
    /\ context \in [Tabs -> Context]
    /\ reading \in [Tabs -> Reading]
    /\ answer \in [Tabs -> Answer]
    /\ \A t \in Tabs : context[t].at # "none" => app = "auditing"

(* Votes are for candidates that were entered, and are counted.            *)
ElectionTypes ==
    /\ status \in {"draft", "active", "ended", "deleted"}
    /\ entered \subseteq Candidates
    /\ votes \in [Candidates -> Nat]
    /\ blocks \in 0 .. totalVotes
    /\ \A x \in Candidates \ entered : votes[x] = 0

(* The portal calls with a token; what it is told is remembered.           *)
CallFits(t) ==
    /\ call[t].at \in Trusted \union {"status"} => app = "auditing"
    /\ app = "auditing" /\ call[t].at # "idle" =>
          /\ call[t].at \in Trusted \union {"sent", "status"}
          /\ call[t].token \in Token
          /\ org[call[t].token.user] = "approved" => reading[t].approvedSince

ReadingFits(t) ==
    /\ call[t].at \in Trusted => reading[t].approvedSince
    /\ call[t].at \in Trusted \ {"row"} => status # "draft"
    /\ call[t].at = "votes" /\ reading[t].kind = "results" =>
          reading[t].candidates = entered
    /\ reading[t].votesBefore <= totalVotes

PortalInv ==
    /\ SessionTypeOK(Places)
    /\ PortalTypes
    /\ ElectionTypes
    /\ \A t \in Tabs : CallFits(t)
    /\ \A t \in Tabs : ReadingFits(t)
    /\ ResultsAddUp

LEMMA SetMoves ==
    ASSUME NEW A, NEW B, NEW f \in [A -> B], NEW t \in A, NEW x \in B
    PROVE  /\ Set(f, t, x) \in [A -> B]
           /\ Set(f, t, x)[t] = x
           /\ \A u \in A \ {t} : Set(f, t, x)[u] = f[u]
  BY DEF Set

LEMMA Constants ==
    /\ None \in Exchange /\ Sent \in Exchange
    /\ Away \in Tab /\ Fresh \in Tab
    /\ Idle \in [at : Places, token : MayHold, retried : BOOLEAN]
    /\ Unmounted \in Context /\ Nothing \in Reading
    /\ Blank \in Answer /\ Error \in Answer
    /\ Idle.at = "idle" /\ Nothing.votesBefore = 0
    /\ Unmounted.at = "none" /\ Blank.kind = "none" /\ Error.kind = "error"
<1>1. NoToken \in MayHold
  BY DEF MayHold
<1>2. None \in Exchange /\ Sent \in Exchange
  BY <1>1 DEF None, Sent, Exchange
<1>3. Away \in Tab /\ Fresh \in Tab
  <2>1. 0 \in 0 .. TOKEN_ATTEMPTS - 1
    BY DEF TOKEN_ATTEMPTS
  <2>2. Away \in Tab
    BY <2>1 DEF Away, Tab
  <2>3. Fresh \in Tab
    BY <2>2 DEF Fresh, Tab
  <2> QED
    BY <2>2, <2>3
<1>4. /\ Idle \in [at : Places, token : MayHold, retried : BOOLEAN]
      /\ Idle.at = "idle"
  BY <1>1 DEF Idle, Places, CallAt
<1>5. Unmounted \in Context /\ Unmounted.at = "none"
  BY <1>1 DEF Unmounted, Context
<1>6. Nothing \in Reading /\ Nothing.votesBefore = 0
  BY DEF Nothing, Reading, Kinds
<1>7. /\ Blank \in Answer /\ Error \in Answer
      /\ Blank.kind = "none" /\ Error.kind = "error"
  BY DEF Blank, Error, Answer, Kinds
<1> QED
  BY <1>2, <1>3, <1>4, <1>5, <1>6, <1>7

-----------------------------------------------------------------------------
(* What the session does                                                   *)

SessionMoves(t) ==
    \/ SessionAnswered(t) \/ AttemptAgain(t) \/ Mint(t)
    \/ CallEnds(t) \/ CallRefreshes(t)
    \/ Logout(t) \/ Open(t) \/ SignOutThere(t) \/ BeginCall(t)
    \/ \E u \in Users : SignIn(t, u)

(* A call the session changes is over, or one of another frontend.         *)
CallRests(u) ==
    \/ call'[u] = call[u]
    \/ call'[u] = Idle
    \/ app # "auditing" /\ call'[u].at \in CallAt

Call == [at : Places, token : MayHold, retried : BOOLEAN]

LEMMA SessionParts ==
    SessionTypeOK(Places) <=>
        /\ app \in Apps
        /\ cookie \in Users \union {NoOne}
        /\ stored \in MayHold
        /\ exchange \in [Tabs -> Exchange]
        /\ tab \in [Tabs -> Tab]
        /\ call \in [Tabs -> Call]
  BY DEF SessionTypeOK, Call

LEMMA JoinedType ==
    ASSUME SessionTypeOK(Places), NEW t \in Tabs
    PROVE  Joined(t) \in [Tabs -> Exchange]
  BY Constants DEF SessionTypeOK, Joined, Set

LEMMA TabMoves ==
    ASSUME NEW p \in Tab, NEW at \in {"token", "ready", "leaving", "signing out"}
    PROVE  [p EXCEPT !.at = at] \in Tab
  BY DEF Tab

LEMMA AttemptType ==
    ASSUME SessionTypeOK(Places), NEW t \in Tabs, Attempt(t, tab[t])
    PROVE  tab' \in [Tabs -> Tab] /\ exchange' \in [Tabs -> Exchange]
<1>1. tab[t] \in Tab /\ tab \in [Tabs -> Tab] /\ exchange \in [Tabs -> Exchange]
  BY DEF SessionTypeOK
<1>2. PICK p, q : /\ p = [tab[t] EXCEPT !.at = "token"]
                  /\ q = [tab[t] EXCEPT !.at = "ready"]
  OBVIOUS
<1>3. p \in Tab /\ q \in Tab
  BY <1>1, <1>2, TabMoves
<1>4. \/ tab' = Set(tab, t, p) /\ exchange' = Joined(t)
      \/ tab' = Set(tab, t, q) /\ exchange' = exchange
  BY <1>2 DEF Attempt
<1>5. tab' \in [Tabs -> Tab]
  BY <1>1, <1>3, <1>4 DEF Set
<1> QED
  BY <1>1, <1>4, <1>5, JoinedType

(* A tab that was told of a token, or that there is none.                  *)
LEMMA TabToldType ==
    ASSUME SessionTypeOK(Places), NEW t \in Tabs, NEW token
    PROVE  TabTold(t, token) \in [Tabs -> Tab]
<1>1. tab[t] \in Tab /\ tab \in [Tabs -> Tab]
  BY DEF SessionTypeOK
<1>2. PICK p, q : /\ p = [tab[t] EXCEPT !.at = "ready"]
                  /\ q = [tab[t] EXCEPT !.attempts = @ + 1]
  OBVIOUS
<1>3. p \in Tab
  BY <1>1, <1>2, TabMoves
<1>4. ASSUME tab[t].attempts # TOKEN_ATTEMPTS - 1
      PROVE  q \in Tab
  <2>1. \A n \in 0 .. TOKEN_ATTEMPTS - 1 :
            n # TOKEN_ATTEMPTS - 1 => n + 1 \in 0 .. TOKEN_ATTEMPTS - 1
    BY DEF TOKEN_ATTEMPTS
  <2>2. tab[t].attempts + 1 \in 0 .. TOKEN_ATTEMPTS - 1
    BY <1>1, <1>4, <2>1 DEF Tab
  <2> QED
    BY <1>1, <1>2, <2>2 DEF Tab
<1>5. \/ TabTold(t, token) = tab \/ TabTold(t, token) = Set(tab, t, p)
      \/ TabTold(t, token) = Set(tab, t, q) /\ q \in Tab
  BY <1>2, <1>4 DEF TabTold
<1> QED
  BY <1>1, <1>3, <1>5 DEF Set

LEMMA CallToldType ==
    ASSUME SessionTypeOK(Places), NEW t \in Tabs, NEW token \in MayHold
    PROVE  /\ CallTold(t, token) \in [Tabs -> Call]
           /\ \A u \in Tabs : \/ CallTold(t, token)[u] = call[u]
                              \/ CallTold(t, token)[u] = Idle
                              \/ call[u].at \in {"token", "refresh"}
                                    /\ CallTold(t, token)[u].at = "sent"
<1>1. call \in [Tabs -> Call] /\ Idle \in Call
  BY Constants DEF SessionTypeOK, Call
<1>2. PICK q : q = [at |-> "sent", token |-> token,
                    retried |-> call[t].at = "refresh"]
  OBVIOUS
<1>3. q \in Call /\ q.at = "sent"
  BY <1>2 DEF Call, Places, CallAt
<1>4. CallTold(t, token) =
          IF call[t].at \notin {"token", "refresh"} THEN call
          ELSE IF call[t].at = "refresh" /\ token = NoToken THEN Set(call, t, Idle)
          ELSE Set(call, t, q)
  BY <1>2 DEF CallTold
<1> QED
  BY <1>1, <1>3, <1>4 DEF Set

LEMMA SessionMovesFit ==
    ASSUME SessionTypeOK(Places), NEW t \in Tabs, SessionMoves(t)
    PROVE  /\ SessionTypeOK(Places)'
           /\ app' = app
           /\ \A u \in Tabs : CallRests(u)
<1> DEFINE Fits == /\ SessionTypeOK(Places)' /\ app' = app
                   /\ \A u \in Tabs : CallRests(u)
<1>1. /\ app \in Apps /\ cookie \in Users \union {NoOne} /\ stored \in MayHold
      /\ exchange \in [Tabs -> Exchange] /\ tab \in [Tabs -> Tab]
      /\ call \in [Tabs -> Call] /\ tab[t] \in Tab /\ call[t] \in Call
  BY DEF SessionTypeOK, Call
<1>2. \A at \in {"token", "ready", "leaving", "signing out"} :
          [tab[t] EXCEPT !.at = at] \in Tab
  BY <1>1, TabMoves
<1>3. CASE SessionAnswered(t) \/ AttemptAgain(t)
  <2>1. tab' \in [Tabs -> Tab] /\ exchange' \in [Tabs -> Exchange]
    <3>1. CASE Attempt(t, tab[t])
      BY <3>1, AttemptType
    <3>2. CASE /\ tab' = Set(tab, t, [tab[t] EXCEPT !.at = "leaving"])
               /\ exchange' = exchange
      BY <1>1, <1>2, <3>2 DEF Set
    <3> QED
      BY <1>3, <3>1, <3>2 DEF SessionAnswered, AttemptAgain
  <2>2. UNCHANGED <<app, cookie, stored, call>>
    BY <1>3 DEF SessionAnswered, AttemptAgain
  <2> QED
    BY <1>1, <2>1, <2>2 DEF SessionTypeOK, Call, CallRests
<1>4. CASE Mint(t)
  <2>1. PICK token : /\ exchange' = Set(exchange, t,
                                        [at |-> "answered", token |-> token])
                     /\ token \in MayHold
    <3>1. PICK token : /\ exchange' = Set(exchange, t,
                                          [at |-> "answered", token |-> token])
                       /\ \/ token = NoToken
                          \/ cookie \in Users
                                /\ token = [user |-> cookie, old |-> FALSE]
      BY <1>1, <1>4 DEF Mint, Failed
    <3>2. token = NoToken \/ token \in Token
      <4>1. \A u \in Users : [user |-> u, old |-> FALSE] \in Token
        BY DEF Token
      <4> QED
        BY <3>1, <4>1
    <3>3. token \in MayHold
      BY <3>2 DEF MayHold
    <3> QED
      BY <3>1, <3>3
  <2>2. [at |-> "answered", token |-> token] \in Exchange
    BY <2>1 DEF Exchange
  <2>3. exchange' \in [Tabs -> Exchange]
    BY <1>1, <2>1, <2>2 DEF Set
  <2>4. UNCHANGED <<app, cookie, stored, tab, call>>
    BY <1>4 DEF Mint
  <2> QED
    BY <1>1, <2>3, <2>4 DEF SessionTypeOK, Call, CallRests
<1>5. CASE CallEnds(t)
  <2>1. call' = Set(call, t, Idle) /\ UNCHANGED <<app, cookie, stored, exchange, tab>>
    BY <1>5 DEF CallEnds
  <2>2. call' \in [Tabs -> Call] /\ \A u \in Tabs : call'[u] \in {call[u], Idle}
    BY <1>1, <2>1, Constants DEF Call, Set
  <2> QED
    BY <1>1, <2>1, <2>2 DEF SessionTypeOK, Call, CallRests
<1>6. CASE CallRefreshes(t)
  <2>1. PICK q : q = [call[t] EXCEPT !.at = "refresh"]
    OBVIOUS
  <2>2. q \in Call /\ q.at = "refresh"
    BY <1>1, <2>1 DEF Call, Places, CallAt
  <2>3. /\ call' = Set(call, t, q) /\ exchange' = Joined(t) /\ app # "auditing"
        /\ UNCHANGED <<app, cookie, stored, tab>>
    BY <1>6, <2>1 DEF CallRefreshes
  <2>4. call' \in [Tabs -> Call] /\ \A u \in Tabs : call'[u] \in {call[u], q}
    BY <1>1, <2>2, <2>3 DEF Set
  <2>5. exchange' \in [Tabs -> Exchange]
    BY <2>3, JoinedType
  <2> QED
    BY <1>1, <2>2, <2>3, <2>4, <2>5 DEF SessionTypeOK, Call, CallRests, CallAt
<1>7. CASE Logout(t) \/ Open(t) \/ SignOutThere(t) \/ \E u \in Users : SignIn(t, u)
  <2>1. /\ cookie' \in Users \union {NoOne}
        /\ tab' = tab \/ tab' = Set(tab, t, Fresh)
              \/ tab' = Set(tab, t, [tab[t] EXCEPT !.at = "signing out"])
        /\ UNCHANGED <<app, stored, exchange, call>>
    BY <1>1, <1>7 DEF Logout, Open, SignOutThere, SignIn
  <2>2. tab' \in [Tabs -> Tab]
    BY <1>1, <1>2, <2>1, Constants DEF Set
  <2> QED
    BY <1>1, <2>1, <2>2 DEF SessionTypeOK, Call, CallRests
<1>8. CASE BeginCall(t)
  <2>1. PICK q : /\ q \in Call /\ q.at \in CallAt
                 /\ call' = Set(call, t, q)
                 /\ exchange' = Joined(t) \/ exchange' = exchange
    <3>1. PICK p : p = [Idle EXCEPT !.at = "token"]
      OBVIOUS
    <3>2. PICK r : r = [Idle EXCEPT !.at = "sent", !.token = stored]
      OBVIOUS
    <3>3. p \in Call /\ p.at = "token"
      BY <3>1, Constants DEF Call, Places, CallAt
    <3>4. r \in Call /\ r.at = "sent"
      BY <1>1, <3>2, Constants DEF Call, Places, CallAt
    <3>5. \/ call' = Set(call, t, p) /\ exchange' = Joined(t)
          \/ call' = Set(call, t, r) /\ exchange' = exchange
      BY <1>8, <3>1, <3>2 DEF BeginCall
    <3> QED
      BY <3>3, <3>4, <3>5 DEF CallAt
  <2>2. app # "auditing" /\ UNCHANGED <<app, cookie, stored, tab>>
    BY <1>8 DEF BeginCall
  <2>3. call' \in [Tabs -> Call] /\ \A u \in Tabs : call'[u] \in {call[u], q}
    BY <1>1, <2>1 DEF Set
  <2>4. exchange' \in [Tabs -> Exchange]
    BY <1>1, <2>1, JoinedType
  <2> QED
    BY <1>1, <2>1, <2>2, <2>3, <2>4 DEF SessionTypeOK, Call, CallRests
<1> QED
  BY <1>3, <1>4, <1>5, <1>6, <1>7, <1>8 DEF SessionMoves

LEMMA SignedOutFits ==
    ASSUME SessionTypeOK(Places), NEW t \in Tabs, SignedOut(t) \/ Left(t)
    PROVE  /\ SessionTypeOK(Places)'
           /\ app' = app
           /\ \A u \in Tabs : call'[u] \in {call[u], Idle}
           /\ Left(t) => call'[t] = Idle
<1>1. /\ app \in Apps /\ cookie \in Users \union {NoOne} /\ stored \in MayHold
      /\ exchange \in [Tabs -> Exchange] /\ tab \in [Tabs -> Tab]
      /\ call \in [Tabs -> Call]
  BY DEF SessionTypeOK, Call
<1>2. [Away EXCEPT !.at = "leaving"] \in Tab
  BY Constants, TabMoves
<1>3. /\ cookie' \in Users \union {NoOne} /\ stored' \in MayHold
      /\ exchange' \in {exchange, Set(exchange, t, None)}
      /\ tab' \in {Set(tab, t, Away), Set(tab, t, [Away EXCEPT !.at = "leaving"])}
      /\ call' \in {call, Set(call, t, Idle)}
      /\ Left(t) => call' = Set(call, t, Idle)
      /\ app' = app
  BY <1>1 DEF SignedOut, Left, MayHold
<1>4. Idle \in Call /\ Away \in Tab /\ None \in Exchange
  BY Constants DEF Call
<1>5. exchange' \in [Tabs -> Exchange]
  BY <1>1, <1>3, <1>4 DEF Set
<1>6. tab' \in [Tabs -> Tab]
  BY <1>1, <1>2, <1>3, <1>4 DEF Set
<1>7. /\ call' \in [Tabs -> Call]
      /\ \A u \in Tabs : call'[u] \in {call[u], Idle}
      /\ Left(t) => call'[t] = Idle
  BY <1>1, <1>3, <1>4 DEF Set
<1> QED
  BY <1>1, <1>3, <1>5, <1>6, <1>7 DEF SessionTypeOK, Call

LEMMA ExchangeArrivesFits ==
    ASSUME SessionTypeOK(Places), NEW t \in Tabs, ExchangeArrives(t),
           app = "auditing" => \A u \in Tabs : call[u].at \notin {"token", "refresh"}
    PROVE  /\ SessionTypeOK(Places)'
           /\ app' = app
           /\ \A u \in Tabs : CallRests(u)
           /\ exchange[t].token \in MayHold
<1>1. /\ app \in Apps /\ cookie \in Users \union {NoOne}
      /\ exchange \in [Tabs -> Exchange]
  BY DEF SessionTypeOK
<1>2. PICK token \in MayHold : token = exchange[t].token
  BY <1>1 DEF Exchange
<1>3. /\ stored' = token /\ exchange' = Set(exchange, t, None)
      /\ tab' = TabTold(t, token) /\ call' = CallTold(t, token)
      /\ app' = app /\ cookie' = cookie
  BY <1>2 DEF ExchangeArrives
<1>4. exchange' \in [Tabs -> Exchange]
  BY <1>1, <1>3, Constants DEF Set
<1>5. tab' \in [Tabs -> Tab]
  BY <1>3, TabToldType
<1>6. call' \in [Tabs -> Call] /\ \A u \in Tabs : CallRests(u)
  BY <1>2, <1>3, CallToldType DEF CallRests, CallAt
<1> QED
  BY <1>1, <1>2, <1>3, <1>4, <1>5, <1>6 DEF SessionTypeOK, Call

-----------------------------------------------------------------------------
(* The steps                                                               *)

LEMMA InvParts ==
    PortalInv =>
        /\ app \in Apps /\ call \in [Tabs -> Call] /\ tab \in [Tabs -> Tab]
        /\ org \in [Users -> Approvals]
        /\ context \in [Tabs -> Context]
        /\ reading \in [Tabs -> Reading]
        /\ answer \in [Tabs -> Answer]
        /\ \A t \in Tabs : context[t].at # "none" => app = "auditing"
  BY SessionParts DEF PortalInv, PortalTypes

(* Calls that are over, or that did not change, fit what is remembered.    *)
LEMMA CallsFit ==
    ASSUME PortalInv, app' = app, org' = org, UNCHANGED electionVars,
           NEW u \in Tabs,
           \/ CallRests(u) /\ reading'[u] = reading[u]
           \/ call'[u] = Idle /\ reading'[u] = Nothing
    PROVE  CallFits(u)' /\ ReadingFits(u)'
<1>1. CallFits(u) /\ ReadingFits(u) /\ totalVotes' = totalVotes
  BY DEF PortalInv, electionVars, totalVotes
<1>2. totalVotes \in Nat
  <2>1. SumFunctionOnSet(votes, Candidates) \in Nat
    BY CandidatesAreFinite, SumType DEF PortalInv, ElectionTypes
  <2> QED
    BY <2>1 DEF totalVotes, SumFunction, PortalInv, ElectionTypes
<1>3. entered' = entered /\ status' = status
  BY DEF electionVars
<1>4. CASE call'[u] = call[u] /\ reading'[u] = reading[u]
  BY <1>1, <1>3, <1>4 DEF CallFits, ReadingFits
<1>5. CASE call'[u] = Idle /\ reading'[u] = reading[u]
  BY <1>1, <1>5, Constants DEF CallFits, ReadingFits, Trusted
<1>6. CASE call'[u] = Idle /\ reading'[u] = Nothing
  BY <1>1, <1>2, <1>6, Constants DEF CallFits, ReadingFits, Trusted
<1>7. CASE app # "auditing" /\ call'[u].at \in CallAt /\ reading'[u] = reading[u]
  BY <1>1, <1>3, <1>7 DEF CallFits, ReadingFits, Trusted, CallAt
<1> QED
  BY <1>4, <1>5, <1>6, <1>7 DEF CallRests

LEMMA ElectionRests ==
    ASSUME ElectionTypes, UNCHANGED electionVars
    PROVE  ElectionTypes'
  BY DEF ElectionTypes, electionVars, totalVotes

LEMMA SessionStep ==
    ASSUME PortalInv, NEW t \in Tabs, SessionMoves(t), portalKeeps
    PROVE  PortalInv'
<1>1. /\ SessionTypeOK(Places)' /\ app' = app
      /\ \A u \in Tabs : CallRests(u)
  BY SessionMovesFit DEF PortalInv
<1>2. /\ UNCHANGED <<org, context, reading, answer>>
      /\ UNCHANGED electionVars
  BY DEF portalKeeps, portalVars, electionVars
<1>3. \A u \in Tabs : CallFits(u)' /\ ReadingFits(u)'
  BY <1>1, <1>2, CallsFit
<1>4. PortalTypes' /\ ElectionTypes' /\ ResultsAddUp'
  BY <1>1, <1>2, ElectionRests DEF PortalInv, PortalTypes, ResultsAddUp
<1> QED
  BY <1>1, <1>3, <1>4 DEF PortalInv

LEMMA TabLeft ==
    ASSUME PortalInv, NEW t \in Tabs,
           \/ SignedOut(t) /\ Unmount(t) /\ UNCHANGED reading
           \/ Left(t) /\ Unmount(t) /\ reading' = Set(reading, t, Nothing)
    PROVE  PortalInv'
<1>1. /\ SessionTypeOK(Places)' /\ app' = app
      /\ \A u \in Tabs : call'[u] \in {call[u], Idle}
      /\ Left(t) => call'[t] = Idle
  BY SignedOutFits DEF PortalInv
<1>2. /\ context' = Set(context, t, Unmounted)
      /\ answer' = Set(answer, t, Blank)
      /\ org' = org /\ UNCHANGED electionVars
  BY DEF Unmount
<1>3. /\ context \in [Tabs -> Context] /\ reading \in [Tabs -> Reading]
      /\ answer \in [Tabs -> Answer]
      /\ \A u \in Tabs : context[u].at # "none" => app = "auditing"
  BY InvParts
<1>4. /\ context' \in [Tabs -> Context]
      /\ \A u \in Tabs : context'[u].at # "none" => app' = "auditing"
  BY <1>1, <1>2, <1>3, Constants DEF Set
<1>5. answer' \in [Tabs -> Answer] /\ ResultsAddUp'
  BY <1>2, <1>3, Constants DEF Set, ResultsAddUp, PortalInv
<1>6. /\ reading' \in [Tabs -> Reading]
      /\ \A u \in Tabs : \/ reading'[u] = reading[u]
                         \/ call'[u] = Idle /\ reading'[u] = Nothing
  BY <1>1, <1>3, Constants DEF Set
<1>7. \A u \in Tabs : CallFits(u)' /\ ReadingFits(u)'
  BY <1>1, <1>2, <1>6, CallsFit DEF CallRests
<1>8. PortalTypes' /\ ElectionTypes'
  BY <1>2, <1>4, <1>5, <1>6, ElectionRests DEF PortalInv, PortalTypes
<1> QED
  BY <1>1, <1>5, <1>7, <1>8 DEF PortalInv

LEMMA ContextMoves ==
    ASSUME PortalInv, NEW t \in Tabs, NEW q \in Context,
           context' \in {context, Set(context, t, q)},
           q.at # "none" => app = "auditing",
           SessionTypeOK(Places)', app' = app, \A u \in Tabs : CallRests(u),
           UNCHANGED <<org, reading, answer>>, UNCHANGED electionVars
    PROVE  PortalInv'
<1>1. /\ context \in [Tabs -> Context]
      /\ \A u \in Tabs : context[u].at # "none" => app = "auditing"
  BY InvParts
<1>2. /\ context' \in [Tabs -> Context]
      /\ \A u \in Tabs : context'[u].at # "none" => app' = "auditing"
  BY <1>1 DEF Set
<1>3. \A u \in Tabs : CallFits(u)' /\ ReadingFits(u)'
  BY CallsFit
<1>4. PortalTypes' /\ ElectionTypes' /\ ResultsAddUp'
  BY <1>2, ElectionRests DEF PortalInv, PortalTypes, ResultsAddUp
<1> QED
  BY <1>3, <1>4 DEF PortalInv

LEMMA ContextGoesOn ==
    ASSUME PortalInv, NEW t \in Tabs,
           \/ Mount(t) \/ fetchAuditStatus(t) \/ OrgGate(t)
           \/ /\ ExchangeArrives(t)
              /\ context' = ContextTold(t, exchange[t].token)
              /\ UNCHANGED <<org, electionVars, reading, answer>>
    PROVE  PortalInv'
<1>1. /\ context[t] \in Context /\ context \in [Tabs -> Context]
      /\ context[t].at # "none" => app = "auditing"
      /\ SessionTypeOK(Places) /\ stored \in MayHold
      /\ tab \in [Tabs -> Tab] /\ tab[t] \in Tab
      /\ call \in [Tabs -> Call] /\ org \in [Users -> Approvals]
  BY InvParts, SessionParts DEF PortalInv
<1>2. UNCHANGED <<org, reading, answer>> /\ UNCHANGED electionVars
  BY DEF Mount, fetchAuditStatus, OrgGate
<1>3. CASE Mount(t)
  <2>1. PICK p, q : /\ p = [Unmounted EXCEPT !.at = "loading"]
                    /\ q = [Unmounted EXCEPT !.at = "loading",
                                !.hasToken = TRUE, !.token = stored]
    OBVIOUS
  <2>2. p \in Context /\ q \in Context
    BY <1>1, <2>1, Constants DEF Context
  <2>3. \/ context' = Set(context, t, p) /\ exchange' = Joined(t)
        \/ context' = Set(context, t, q) /\ exchange' = exchange
    BY <1>3, <2>1 DEF Mount
  <2>4. app = "auditing" /\ UNCHANGED <<app, cookie, stored, tab, call>>
    BY <1>3 DEF Mount
  <2>5. SessionTypeOK(Places)' /\ \A u \in Tabs : CallRests(u)
    BY <1>1, <2>3, <2>4, JoinedType DEF SessionTypeOK, CallRests
  <2> QED
    BY <1>2, <2>2, <2>3, <2>4, <2>5, ContextMoves
<1>4. CASE fetchAuditStatus(t)
  <2>1. PICK seen : /\ seen \in Approvals \union {"unread", "failed"}
                    /\ context' = Set(context, t, [context[t] EXCEPT !.status = seen])
    <3>1. cookie \in Users \union {NoOne}
      BY <1>1 DEF SessionTypeOK
    <3>2. resolveAuditor(cookie) \in Approvals \union {"failed"}
      BY <1>1, <3>1 DEF resolveAuditor
    <3> QED
      BY <1>4, <3>2 DEF fetchAuditStatus
  <2>2. PICK q : q = [context[t] EXCEPT !.status = seen]
    OBVIOUS
  <2>3. q \in Context /\ q.at = context[t].at
    BY <1>1, <2>1, <2>2 DEF Context
  <2>4. UNCHANGED sessionVars
    BY <1>4 DEF fetchAuditStatus
  <2>5. SessionTypeOK(Places)' /\ app' = app /\ \A u \in Tabs : CallRests(u)
    BY <1>1, <2>4 DEF SessionTypeOK, sessionVars, CallRests
  <2> QED
    BY <1>1, <1>2, <2>1, <2>2, <2>3, <2>5, ContextMoves
<1>5. CASE OrgGate(t)
  <2>1. PICK q : q = [context[t] EXCEPT !.at = "shown"]
    OBVIOUS
  <2>2. q \in Context
    BY <1>1, <2>1 DEF Context
  <2>3. /\ context[t].at = "loading" /\ context' = Set(context, t, q)
        /\ UNCHANGED <<app, cookie, stored, exchange, call>>
    BY <1>5, <2>1 DEF OrgGate
  <2>4. PICK p : p = [tab[t] EXCEPT !.at = "leaving"]
    OBVIOUS
  <2>5. p \in Tab /\ tab' \in {tab, Set(tab, t, p)}
    BY <1>1, <1>5, <2>4, TabMoves DEF OrgGate
  <2>6. tab' \in [Tabs -> Tab]
    BY <1>1, <2>5 DEF Set
  <2>7. SessionTypeOK(Places)' /\ app' = app /\ \A u \in Tabs : CallRests(u)
    BY <1>1, <2>3, <2>6 DEF SessionTypeOK, CallRests
  <2> QED
    BY <1>1, <1>2, <2>2, <2>3, <2>7, ContextMoves
<1>6. CASE ExchangeArrives(t) /\ context' = ContextTold(t, exchange[t].token)
  <2>1. app = "auditing" => \A u \in Tabs : call[u].at \notin {"token", "refresh"}
    BY DEF PortalInv, CallFits, Trusted
  <2>2. /\ SessionTypeOK(Places)' /\ app' = app
        /\ \A u \in Tabs : CallRests(u)
        /\ exchange[t].token \in MayHold
    BY <1>1, <1>6, <2>1, ExchangeArrivesFits
  <2>3. PICK q : q = [context[t] EXCEPT !.hasToken = TRUE,
                          !.token = exchange[t].token]
    OBVIOUS
  <2>4. q \in Context /\ q.at = context[t].at
    BY <1>1, <2>2, <2>3 DEF Context
  <2>5. context' \in {context, Set(context, t, q)}
    BY <1>6, <2>3 DEF ContextTold
  <2> QED
    BY <1>1, <1>2, <2>2, <2>4, <2>5, ContextMoves
<1> QED
  BY <1>3, <1>4, <1>5, <1>6

(* One tab's request goes on, and the election and the session do not.     *)
LEMMA RequestMoves ==
    ASSUME PortalInv, NEW t \in Tabs, NEW c \in Call, NEW w \in Reading,
           NEW a \in Answer,
           call' = Set(call, t, c), reading' = Set(reading, t, w),
           answer' = Set(answer, t, a),
           backendKeeps,
           CallFits(t)', ReadingFits(t)',
           a.kind = "results" => a.sum = a.total
    PROVE  PortalInv'
<1>1. /\ call \in [Tabs -> Call] /\ reading \in [Tabs -> Reading]
      /\ answer \in [Tabs -> Answer]
  BY InvParts
<1>2. /\ UNCHANGED <<app, cookie, stored, exchange, tab, org, context>>
      /\ UNCHANGED electionVars
  BY DEF backendKeeps
<1>3. /\ call' \in [Tabs -> Call] /\ reading' \in [Tabs -> Reading]
      /\ answer' \in [Tabs -> Answer]
  BY <1>1 DEF Set
<1>4. SessionTypeOK(Places)'
  BY <1>2, <1>3 DEF PortalInv, SessionTypeOK, Call
<1>5. ASSUME NEW u \in Tabs
      PROVE  CallFits(u)' /\ ReadingFits(u)'
  <2>1. CASE u = t
    BY <2>1
  <2>2. CASE u # t
    <3>1. call'[u] = call[u] /\ reading'[u] = reading[u]
      BY <1>1, <2>2 DEF Set
    <3> QED
      BY <1>2, <3>1, CallsFit DEF CallRests
  <2> QED
    BY <2>1, <2>2
<1>6. PortalTypes' /\ ElectionTypes'
  BY <1>2, <1>3, ElectionRests DEF PortalInv, PortalTypes
<1>7. ResultsAddUp'
  BY <1>1 DEF PortalInv, ResultsAddUp, Set
<1> QED
  BY <1>4, <1>5, <1>6, <1>7 DEF PortalInv

LEMMA TotalIsSum ==
    ASSUME ElectionTypes
    PROVE  /\ totalVotes \in Nat
           /\ totalVotes = SumFunctionOnSet(votes, Candidates)
<1>1. SumFunctionOnSet(votes, Candidates) \in Nat
  BY CandidatesAreFinite, SumType DEF ElectionTypes
<1>2. totalVotes = SumFunctionOnSet(votes, Candidates)
  BY DEF totalVotes, SumFunction, ElectionTypes
<1> QED
  BY <1>1, <1>2

(* The candidates of a result are all there are votes for.                 *)
LEMMA EnteredHaveAll ==
    ASSUME ElectionTypes
    PROVE  SumFunctionOnSet(votes, entered) = totalVotes
<1>1. SumFunctionOnSet(votes, Candidates) = SumFunctionOnSet(votes, entered)
  BY CandidatesAreFinite, SumZeros DEF ElectionTypes
<1> QED
  BY <1>1, TotalIsSum

(* A page reads: it remembers what it must not be answered with.           *)
LEMMA ReadKeeps ==
    ASSUME PortalInv, NEW t \in Tabs, NEW k \in Kinds, Read(t, k)
    PROVE  PortalInv'
<1>1. /\ context[t] \in Context /\ context[t].token # NoToken
      /\ context[t].at # "none" /\ app = "auditing"
  BY InvParts DEF Read
<1>2. context[t].token \in Token
  BY <1>1 DEF Context, MayHold
<1>3. PICK token \in Token : token = context[t].token
  BY <1>2
<1>4. PICK c : c = [Idle EXCEPT !.at = "sent", !.token = token]
  OBVIOUS
<1>5. c \in Call /\ c.at = "sent" /\ c.token = token
  BY <1>4 DEF Call, Places, CallAt, MayHold, Idle
<1>6. PICK w : w = [Nothing EXCEPT !.kind = k,
                        !.approvedSince = org[token.user] = "approved",
                        !.votesBefore = totalVotes]
  OBVIOUS
<1>7. totalVotes \in Nat
  BY TotalIsSum DEF PortalInv
<1>8. /\ w \in Reading /\ w.kind = k /\ w.votesBefore = totalVotes
      /\ org[token.user] = "approved" => w.approvedSince
  BY <1>6, <1>7 DEF Nothing, Reading
<1>9. /\ call' = Set(call, t, c) /\ reading' = Set(reading, t, w)
      /\ answer' = Set(answer, t, Blank) /\ backendKeeps
  BY <1>3, <1>4, <1>6 DEF Read, backendKeeps
<1>10. call'[t] = c /\ reading'[t] = w
  BY <1>9, InvParts DEF Set
<1>11. /\ app' = app /\ org' = org /\ totalVotes' = totalVotes
  BY <1>9 DEF backendKeeps, electionVars, totalVotes
<1>12. CallFits(t)'
  BY <1>1, <1>5, <1>8, <1>10, <1>11 DEF CallFits, Trusted
<1>13. ReadingFits(t)'
  BY <1>5, <1>7, <1>8, <1>10, <1>11 DEF ReadingFits, Trusted
<1> QED
  BY <1>5, <1>8, <1>9, <1>12, <1>13, Constants, RequestMoves

(* An answer of any kind is shown, and the request is over.                *)
LEMMA ShowKeeps ==
    ASSUME PortalInv, NEW t \in Tabs, NEW a \in Answer, Show(t, a), backendKeeps,
           a.kind = "results" => a.sum = a.total
    PROVE  PortalInv'
<1>1. /\ call' = Set(call, t, Idle) /\ reading' = Set(reading, t, Nothing)
      /\ answer' = Set(answer, t, a)
  BY DEF Show
<1>2. call'[t] = Idle /\ reading'[t] = Nothing
  BY <1>1, InvParts DEF Set
<1>3. app' = app /\ org' = org /\ UNCHANGED electionVars
  BY DEF backendKeeps
<1>4. CallFits(t)' /\ ReadingFits(t)'
  BY <1>2, <1>3, CallsFit
<1>5. Idle \in Call /\ Nothing \in Reading
  BY Constants DEF Call
<1> QED
  BY <1>1, <1>4, <1>5, RequestMoves

LEMMA AnswersKeep ==
    ASSUME PortalInv, NEW t \in Tabs,
           ReadFails(t) \/ CountVotes(t) \/ FetchBlocks(t)
    PROVE  PortalInv'
<1>1. reading[t] \in Reading /\ ElectionTypes
  BY InvParts DEF PortalInv
<1>2. totalVotes \in Nat
  BY <1>1, TotalIsSum
<1>3. CASE ReadFails(t)
  BY <1>3, Constants, ShowKeeps DEF ReadFails
<1>4. CASE CountVotes(t)
  <2>1. reading[t].candidates \in SUBSET Candidates /\ reading[t].kind \in Kinds
    BY <1>1 DEF Reading
  <2>2. PICK n \in Nat : n = SumFunctionOnSet(votes, reading[t].candidates)
    BY <1>1, <2>1, CandidatesAreFinite, SumType DEF ElectionTypes
  <2>3. PICK a : a = [kind |-> reading[t].kind, total |-> totalVotes, sum |-> n]
    OBVIOUS
  <2>4. a \in Answer
    BY <1>2, <2>1, <2>3 DEF Answer
  <2>5. Show(t, a) /\ backendKeeps
    BY <1>4, <2>2, <2>3 DEF CountVotes
  <2>6. ASSUME a.kind = "results"
        PROVE  a.sum = a.total
    <3>1. reading[t].candidates = entered
      BY <1>4, <2>3, <2>6 DEF CountVotes, PortalInv, ReadingFits
    <3> QED
      BY <1>1, <2>2, <2>3, <3>1, EnteredHaveAll
  <2> QED
    BY <2>4, <2>5, <2>6, ShowKeeps
<1>5. CASE FetchBlocks(t)
  <2>1. PICK a : a = [kind |-> "blockchain", total |-> blocks, sum |-> 0]
    OBVIOUS
  <2>2. blocks \in Nat
    BY <1>1, <1>2 DEF ElectionTypes
  <2>3. a \in Answer /\ a.kind = "blockchain"
    BY <2>1, <2>2 DEF Answer, Kinds
  <2>4. Show(t, a) /\ backendKeeps
    BY <1>5, <2>1 DEF FetchBlocks
  <2> QED
    BY <2>3, <2>4, ShowKeeps
<1> QED
  BY <1>3, <1>4, <1>5

(* The caller's status is looked up before anything is read, and what is   *)
(* read is what was entered by the time the election had started.          *)
LEMMA GoingOnKeeps ==
    ASSUME PortalInv, NEW t \in Tabs,
           \/ Protected(t) \/ requireApprovedAuditor(t) \/ ReadElection(t)
           \/ ReadCandidates(t)
    PROVE  PortalInv'
<1>1. /\ call \in [Tabs -> Call] /\ call[t] \in Call
      /\ reading \in [Tabs -> Reading] /\ reading[t] \in Reading
      /\ answer \in [Tabs -> Answer] /\ answer[t] \in Answer
  BY InvParts
<1>2. answer' = Set(answer, t, answer[t]) /\ backendKeeps
  BY <1>1 DEF Protected, requireApprovedAuditor, ReadElection, ReadCandidates, Set
<1>3. /\ app' = app /\ org' = org /\ status' = status /\ entered' = entered
      /\ totalVotes' = totalVotes
  BY <1>2 DEF backendKeeps, electionVars, totalVotes
<1>4. answer[t].kind = "results" => answer[t].sum = answer[t].total
  BY DEF PortalInv, ResultsAddUp
<1>5. CallFits(t) /\ ReadingFits(t) /\ entered \subseteq Candidates
  BY DEF PortalInv, ElectionTypes
<1>6. SUFFICES ASSUME NEW c \in Call, NEW w \in Reading,
                      call' = Set(call, t, c), reading' = Set(reading, t, w)
               PROVE  CallFits(t)' /\ ReadingFits(t)'
  <2>1. PICK at \in Places : call' = Set(call, t, [call[t] EXCEPT !.at = at])
    <3>1. NextStatement(reading[t].kind) \in Places
      BY <1>1 DEF NextStatement, Places
    <3> QED
      BY <3>1 DEF Protected, requireApprovedAuditor, ReadElection, ReadCandidates,
                  Goto, Places
  <2>2. PICK c : c = [call[t] EXCEPT !.at = at]
    OBVIOUS
  <2>3. c \in Call
    BY <1>1, <2>2 DEF Call
  <2>4. PICK w \in Reading : reading' = Set(reading, t, w)
    <3>1. CASE reading' = reading
      BY <1>1, <3>1 DEF Set
    <3>2. CASE ReadCandidates(t)
      <4>1. PICK w : w = [reading[t] EXCEPT !.candidates = entered]
        OBVIOUS
      <4>2. w \in Reading
        BY <1>1, <1>5, <4>1 DEF Reading
      <4> QED
        BY <3>2, <4>1, <4>2 DEF ReadCandidates
    <3> QED
      BY <3>1, <3>2 DEF Protected, requireApprovedAuditor, ReadElection
  <2> QED
    BY <1>2, <1>4, <1>1, <2>1, <2>2, <2>3, <2>4, RequestMoves
<1>7. call'[t] = c /\ reading'[t] = w
  BY <1>1, <1>6 DEF Set
<1>8. CASE Protected(t)
  <2>1. /\ app = "auditing" /\ call[t].at = "sent" /\ reading'[t] = reading[t]
        /\ call'[t] = [call[t] EXCEPT !.at = "status"]
    BY <1>1, <1>8 DEF Protected, Goto, Set
  <2>2. call'[t].at = "status" /\ call'[t].token = call[t].token
    BY <1>1, <2>1 DEF Call
  <2> QED
    BY <1>3, <1>5, <2>1, <2>2 DEF CallFits, ReadingFits, Trusted
<1>9. CASE requireApprovedAuditor(t)
  <2>1. /\ call[t].at = "status" /\ reading'[t] = reading[t]
        /\ call'[t] = [call[t] EXCEPT !.at = "row"]
        /\ resolveAuditor(call[t].token.user) = "approved"
    BY <1>1, <1>9 DEF requireApprovedAuditor, Goto, Set
  <2>2. call'[t].at = "row" /\ call'[t].token = call[t].token
    BY <1>1, <2>1 DEF Call
  <2>3. app = "auditing" /\ reading[t].approvedSince
    BY <1>5, <2>1 DEF CallFits, Trusted, resolveAuditor
  <2> QED
    BY <1>3, <1>5, <2>1, <2>2, <2>3 DEF CallFits, ReadingFits, Trusted
<1>10. CASE ReadElection(t)
  <2>1. /\ call[t].at = "row" /\ reading'[t] = reading[t]
        /\ call'[t] = [call[t] EXCEPT !.at = NextStatement(reading[t].kind)]
        /\ status # "draft"
    BY <1>1, <1>10 DEF ReadElection, Goto, Set
  <2>2. /\ call'[t].at = NextStatement(reading[t].kind)
        /\ call'[t].token = call[t].token
    BY <1>1, <2>1 DEF Call
  <2>3. /\ call'[t].at \in {"candidates", "votes", "chain"}
        /\ call'[t].at = "votes" => reading[t].kind # "results"
    BY <2>2 DEF NextStatement
  <2>4. app = "auditing" /\ reading[t].approvedSince
    BY <1>5, <2>1 DEF CallFits, ReadingFits, Trusted
  <2> QED
    BY <1>3, <1>5, <2>1, <2>2, <2>3, <2>4 DEF CallFits, ReadingFits, Trusted
<1>11. CASE ReadCandidates(t)
  <2>1. /\ call[t].at = "candidates"
        /\ reading'[t] = [reading[t] EXCEPT !.candidates = entered]
        /\ call'[t] = [call[t] EXCEPT !.at = "votes"]
    BY <1>1, <1>11 DEF ReadCandidates, Goto, Set
  <2>2. call'[t].at = "votes" /\ call'[t].token = call[t].token
    BY <1>1, <2>1 DEF Call
  <2>3. /\ reading'[t].candidates = entered
        /\ reading'[t].approvedSince = reading[t].approvedSince
        /\ reading'[t].votesBefore = reading[t].votesBefore
    BY <1>1, <2>1 DEF Reading
  <2>4. /\ app = "auditing" /\ reading[t].approvedSince /\ status # "draft"
    BY <1>5, <2>1 DEF CallFits, ReadingFits, Trusted
  <2> QED
    BY <1>3, <1>5, <2>1, <2>2, <2>3, <2>4 DEF CallFits, ReadingFits, Trusted
<1> QED
  BY <1>8, <1>9, <1>10, <1>11

-----------------------------------------------------------------------------
(* Organisations, the election and the time meanwhile                      *)

LEMMA CreateOrgKeeps ==
    ASSUME PortalInv, NEW t \in Tabs, CreateOrg(t)
    PROVE  PortalInv'
<1>1. /\ cookie \in Users /\ org' = [org EXCEPT ![cookie] = "pending"]
      /\ UNCHANGED sessionVars /\ UNCHANGED electionVars
      /\ UNCHANGED <<context, reading, answer>>
  BY DEF CreateOrg, PortalInv, SessionTypeOK
<1>2. /\ org' \in [Users -> Approvals]
      /\ \A u \in Users : org'[u] = "approved" => org[u] = "approved"
  BY <1>1, InvParts DEF Approvals
<1>3. /\ app' = app /\ call' = call /\ status' = status /\ entered' = entered
      /\ totalVotes' = totalVotes
  BY <1>1 DEF sessionVars, electionVars, totalVotes
<1>4. ASSUME NEW u \in Tabs
      PROVE  CallFits(u)' /\ ReadingFits(u)'
  <2>1. CallFits(u) /\ ReadingFits(u)
    BY DEF PortalInv
  <2>2. call[u].token \in Token => call[u].token.user \in Users
    BY DEF Token
  <2> QED
    BY <1>1, <1>2, <1>3, <2>1, <2>2 DEF CallFits, ReadingFits
<1>5. SessionTypeOK(Places)' /\ PortalTypes' /\ ElectionTypes' /\ ResultsAddUp'
  BY <1>1, <1>2, ElectionRests
  DEF PortalInv, SessionTypeOK, sessionVars, PortalTypes, ResultsAddUp
<1> QED
  BY <1>4, <1>5 DEF PortalInv

LEMMA JudgeKeeps ==
    ASSUME PortalInv, NEW u \in Users, NEW verdict \in {"approved", "rejected"},
           Judge(u, verdict)
    PROVE  PortalInv'
<1>1. /\ org' = [org EXCEPT ![u] = verdict]
      /\ UNCHANGED sessionVars /\ UNCHANGED electionVars
      /\ UNCHANGED <<context, answer>>
  BY DEF Judge
<1>2. org \in [Users -> Approvals] /\ reading \in [Tabs -> Reading]
  BY InvParts
<1>3. org' \in [Users -> Approvals]
  BY <1>1, <1>2 DEF Approvals
<1>4. /\ app' = app /\ call' = call /\ status' = status /\ entered' = entered
      /\ totalVotes' = totalVotes
  BY <1>1 DEF sessionVars, electionVars, totalVotes
<1>5. ASSUME NEW t \in Tabs
      PROVE  /\ reading'[t] \in Reading
             /\ reading'[t].kind = reading[t].kind
             /\ reading'[t].candidates = reading[t].candidates
             /\ reading'[t].votesBefore = reading[t].votesBefore
             /\ reading[t].approvedSince => reading'[t].approvedSince
             /\ verdict = "approved" /\ call[t].token.user = u
                    => reading'[t].approvedSince
  <2>1. PICK w : w = [reading[t] EXCEPT !.approvedSince = TRUE]
    OBVIOUS
  <2>2. /\ w \in Reading /\ w.kind = reading[t].kind
        /\ w.candidates = reading[t].candidates
        /\ w.votesBefore = reading[t].votesBefore /\ w.approvedSince
    BY <1>2, <2>1 DEF Reading
  <2>3. reading'[t] = IF verdict = "approved" /\ call[t].token.user = u
                      THEN w ELSE reading[t]
    BY <2>1 DEF Judge
  <2> QED
    BY <1>2, <2>2, <2>3
<1>6. reading' \in [Tabs -> Reading]
  <2>1. reading' = [t \in Tabs |-> reading'[t]]
    BY DEF Judge
  <2> QED
    BY <1>5, <2>1
<1>7. ASSUME NEW t \in Tabs
      PROVE  CallFits(t)' /\ ReadingFits(t)'
  <2>1. CallFits(t) /\ ReadingFits(t)
    BY DEF PortalInv
  <2>2. ASSUME call[t].token \in Token,
               org[call[t].token.user] = "approved" => reading[t].approvedSince,
               org'[call[t].token.user] = "approved"
        PROVE  reading'[t].approvedSince
    <3>1. call[t].token.user \in Users
      BY <2>2 DEF Token
    <3>2. CASE call[t].token.user = u
      BY <1>1, <1>2, <1>5, <2>2, <3>2
    <3>3. CASE call[t].token.user # u
      BY <1>1, <1>2, <1>5, <2>2, <3>1, <3>3
    <3> QED
      BY <3>2, <3>3
  <2>3. CallFits(t)'
    BY <1>4, <2>1, <2>2 DEF CallFits
  <2>4. ReadingFits(t)'
    BY <1>4, <1>5, <2>1 DEF ReadingFits
  <2> QED
    BY <2>3, <2>4
<1>8. SessionTypeOK(Places)' /\ PortalTypes' /\ ElectionTypes' /\ ResultsAddUp'
  BY <1>1, <1>3, <1>6, ElectionRests
  DEF PortalInv, SessionTypeOK, sessionVars, PortalTypes, ResultsAddUp
<1> QED
  BY <1>7, <1>8 DEF PortalInv
(* What happens to the election; votes only for candidates that are in.    *)
LEMMA ElectionGoesOnKeeps ==
    ASSUME PortalInv, ElectionGoesOn
    PROVE  PortalInv' /\ totalVotes <= totalVotes'
<1>1. /\ ElectionTypes /\ votes \in [Candidates -> Nat]
      /\ entered \subseteq Candidates
  BY DEF PortalInv, ElectionTypes
<1>2. /\ totalVotes \in Nat
      /\ totalVotes = SumFunctionOnSet(votes, Candidates)
      /\ blocks \in 0 .. totalVotes
  BY <1>1, TotalIsSum DEF ElectionTypes
<1>3. /\ UNCHANGED sessionVars /\ UNCHANGED <<org, context, reading, answer>>
  BY DEF ElectionGoesOn
<1>4. /\ ElectionTypes' /\ totalVotes' \in Nat /\ totalVotes <= totalVotes'
      /\ status # "draft" => status' # "draft" /\ entered' = entered
  <2>1. CASE /\ status = "draft"
             /\ \E x \in Candidates \ entered : entered' = entered \union {x}
             /\ UNCHANGED <<status, votes, blocks>>
    <3>1. totalVotes' = totalVotes
      BY <2>1 DEF totalVotes
    <3> QED
      BY <1>1, <1>2, <2>1, <3>1 DEF ElectionTypes
  <2>2. CASE /\ \/ status = "draft" /\ status' \in {"active", "deleted"}
                \/ status = "active" /\ status' = "ended"
                \/ status = "ended" /\ status' = "deleted"
             /\ UNCHANGED <<entered, votes, blocks>>
    <3>1. totalVotes' = totalVotes
      BY <2>2 DEF totalVotes
    <3> QED
      BY <1>1, <1>2, <2>2, <3>1 DEF ElectionTypes
  <2>3. ASSUME NEW x \in entered, votes' = [votes EXCEPT ![x] = @ + 1],
               UNCHANGED <<status, entered, blocks>>
        PROVE  /\ ElectionTypes' /\ totalVotes' \in Nat /\ totalVotes <= totalVotes'
    <3>1. SumFunctionOnSet(votes', Candidates)
              = SumFunctionOnSet(votes, Candidates) + 1
      BY <1>1, <2>3, CandidatesAreFinite, SumOneMore
    <3>2. votes' \in [Candidates -> Nat]
      <4>1. votes[x] + 1 \in Nat
        BY <1>1
      <4> QED
        BY <1>1, <2>3, <4>1
    <3>3. totalVotes' = totalVotes + 1
      BY <1>2, <3>1, <3>2 DEF totalVotes, SumFunction
    <3>4. \A y \in Candidates \ entered : votes'[y] = 0
      BY <1>1, <2>3 DEF ElectionTypes
    <3>5. /\ blocks' \in 0 .. totalVotes' /\ totalVotes' \in Nat
          /\ totalVotes <= totalVotes'
      BY <1>2, <2>3, <3>3
    <3> QED
      BY <1>1, <2>3, <3>2, <3>4, <3>5 DEF ElectionTypes
  <2>4. CASE /\ blocks < totalVotes /\ blocks' = blocks + 1
             /\ UNCHANGED <<status, entered, votes>>
    <3>1. totalVotes' = totalVotes
      BY <2>4 DEF totalVotes
    <3>2. blocks' \in 0 .. totalVotes
      BY <1>2, <2>4
    <3> QED
      BY <1>1, <1>2, <2>4, <3>1, <3>2 DEF ElectionTypes
  <2> QED
    BY <2>1, <2>2, <2>3, <2>4 DEF ElectionGoesOn
<1>5. ASSUME NEW t \in Tabs
      PROVE  CallFits(t)' /\ ReadingFits(t)'
  <2>1. CallFits(t) /\ ReadingFits(t) /\ reading[t] \in Reading
    BY InvParts DEF PortalInv
  <2>2. app' = app /\ call' = call /\ org' = org /\ reading' = reading
    BY <1>3 DEF sessionVars
  <2>3. reading[t].votesBefore <= totalVotes'
    <3>1. reading[t].votesBefore \in Nat /\ totalVotes' \in Nat
      BY <1>4, <2>1 DEF Reading
    <3> QED
      BY <1>2, <1>4, <2>1, <3>1 DEF ReadingFits
  <2>4. CallFits(t)'
    BY <2>1, <2>2 DEF CallFits
  <2>5. ReadingFits(t)'
    BY <1>4, <2>1, <2>2, <2>3 DEF ReadingFits, Trusted
  <2> QED
    BY <2>4, <2>5
<1>6. SessionTypeOK(Places)' /\ PortalTypes' /\ ResultsAddUp'
  BY <1>3 DEF PortalInv, SessionTypeOK, sessionVars, PortalTypes, ResultsAddUp
<1> QED
  BY <1>4, <1>5, <1>6 DEF PortalInv

LEMMA AgedToken ==
    ASSUME NEW token \in MayHold
    PROVE  /\ [token EXCEPT !.old = TRUE] \in MayHold
           /\ [token EXCEPT !.old = TRUE].user = token.user
           /\ token \in Token => [token EXCEPT !.old = TRUE] \in Token
<1>1. CASE token \in Token
  <2>1. /\ [token EXCEPT !.old = TRUE] \in Token
        /\ [token EXCEPT !.old = TRUE].user = token.user
    BY <1>1 DEF Token
  <2> QED
    BY <2>1 DEF MayHold
<1>2. CASE token = NoToken
  <2>1. [NoToken EXCEPT !.old = TRUE] = NoToken
    <3>1. \A b : [[user |-> NoOne, old |-> b] EXCEPT !.old = b]
                     = [user |-> NoOne, old |-> b]
      OBVIOUS
    <3> QED
      BY <3>1 DEF NoToken
  <2> QED
    BY <1>2, <2>1 DEF MayHold
<1> QED
  BY <1>1, <1>2 DEF MayHold

LEMMA TimePassesKeeps ==
    ASSUME PortalInv, TimePasses
    PROVE  PortalInv'
<1>1. /\ stored \in MayHold /\ call \in [Tabs -> Call]
      /\ context \in [Tabs -> Context]
      /\ \A t \in Tabs : context[t].at # "none" => app = "auditing"
  BY InvParts, SessionParts DEF PortalInv
<1>2. /\ UNCHANGED <<app, cookie, exchange, tab>>
      /\ UNCHANGED <<org, reading, answer>> /\ UNCHANGED electionVars
  BY DEF TimePasses, Age
<1>3. stored' \in MayHold
  BY <1>1, AgedToken DEF TimePasses, Age, MayHold
<1>4. ASSUME NEW t \in Tabs
      PROVE  /\ call'[t] \in Call /\ call'[t].at = call[t].at
             /\ call'[t].token.user = call[t].token.user
             /\ call[t].token \in Token => call'[t].token \in Token
  <2>1. PICK token \in MayHold : token = call[t].token
    BY <1>1 DEF Call
  <2>2. PICK aged : aged = [token EXCEPT !.old = TRUE]
    OBVIOUS
  <2>3. /\ aged \in MayHold /\ aged.user = token.user
        /\ token \in Token => aged \in Token
    BY <2>2, AgedToken
  <2>4. PICK c : c = [call[t] EXCEPT !.token = aged]
    OBVIOUS
  <2>5. c \in Call /\ c.at = call[t].at /\ c.token = aged
    BY <1>1, <2>3, <2>4 DEF Call
  <2>6. call'[t] = call[t] \/ call'[t] = c
    BY <2>1, <2>2, <2>4 DEF TimePasses, Age
  <2> QED
    BY <1>1, <2>1, <2>3, <2>5, <2>6
<1>5. call' \in [Tabs -> Call]
  <2>1. call' = [t \in Tabs |-> call'[t]]
    BY DEF TimePasses, Age
  <2> QED
    BY <1>4, <2>1
<1>6. ASSUME NEW t \in Tabs
      PROVE  context'[t] \in Context /\ context'[t].at = context[t].at
  <2>1. PICK token \in MayHold : token = context[t].token
    BY <1>1 DEF Context
  <2>2. PICK aged : aged = [token EXCEPT !.old = TRUE]
    OBVIOUS
  <2>3. aged \in MayHold
    BY <2>2, AgedToken
  <2>4. context'[t] = [context[t] EXCEPT !.token = aged]
    BY <2>1, <2>2 DEF TimePasses
  <2> QED
    BY <1>1, <2>3, <2>4 DEF Context
<1>7. context' \in [Tabs -> Context]
  <2>1. context' = [t \in Tabs |-> context'[t]]
    BY DEF TimePasses
  <2> QED
    BY <1>6, <2>1
<1>8. ASSUME NEW t \in Tabs
      PROVE  CallFits(t)' /\ ReadingFits(t)'
  <2>1. CallFits(t) /\ ReadingFits(t)
    BY DEF PortalInv
  <2>2. totalVotes' = totalVotes /\ status' = status /\ entered' = entered
    BY <1>2 DEF electionVars, totalVotes
  <2> QED
    BY <1>2, <1>4, <2>1, <2>2 DEF CallFits, ReadingFits
<1>9. SessionTypeOK(Places)'
  BY <1>2, <1>3, <1>5 DEF PortalInv, SessionTypeOK, Call
<1>10. PortalTypes' /\ ElectionTypes' /\ ResultsAddUp'
  BY <1>1, <1>2, <1>6, <1>7, ElectionRests
  DEF PortalInv, PortalTypes, ResultsAddUp
<1> QED
  BY <1>8, <1>9, <1>10 DEF PortalInv

-----------------------------------------------------------------------------
LEMMA InitPortalInv == Init => PortalInv
<1> SUFFICES ASSUME Init PROVE PortalInv
  OBVIOUS
<1>1. ElectionTypes
  <2>1. votes \in [Candidates -> Nat] /\ \A x \in Candidates : votes[x] = 0
    BY DEF Init
  <2>2. SumFunctionOnSet(votes, Candidates) \in Nat
    BY <2>1, CandidatesAreFinite, SumType
  <2>3. totalVotes \in Nat
    BY <2>1, <2>2 DEF totalVotes, SumFunction
  <2> QED
    BY <2>1, <2>3 DEF Init, ElectionTypes
<1>2. totalVotes \in Nat
  BY <1>1, TotalIsSum
<1>3. /\ SessionTypeOK(Places)
      /\ \A t \in Tabs : call[t] = Idle
  BY Constants DEF Init, SessionInit, SessionTypeOK, MayHold
<1>4. PortalTypes
  <2>1. org \in [Users -> Approvals]
    BY DEF Init, Approvals
  <2>2. /\ context \in [Tabs -> Context] /\ reading \in [Tabs -> Reading]
        /\ answer \in [Tabs -> Answer]
    BY Constants DEF Init
  <2> QED
    BY <2>1, <2>2, Constants DEF Init, PortalTypes
<1>5. \A t \in Tabs : CallFits(t)
  BY <1>3, Constants DEF CallFits, Trusted
<1>6. ASSUME NEW t \in Tabs
      PROVE  ReadingFits(t)
  <2>1. reading[t].votesBefore = 0 /\ call[t].at = "idle"
    BY <1>3, Constants DEF Init
  <2> QED
    BY <1>2, <2>1 DEF ReadingFits, Trusted
<1>7. ResultsAddUp
  BY Constants DEF Init, ResultsAddUp
<1> QED
  BY <1>1, <1>3, <1>4, <1>5, <1>6, <1>7 DEF PortalInv

LEMMA RestKeeps ==
    ASSUME PortalInv, UNCHANGED vars
    PROVE  PortalInv'
<1>1. UNCHANGED sessionVars /\ UNCHANGED electionVars
      /\ UNCHANGED <<org, context, reading, answer>>
  BY DEF vars, portalVars, electionVars
<1>2. SessionTypeOK(Places)' /\ PortalTypes' /\ ElectionTypes' /\ ResultsAddUp'
  BY <1>1, ElectionRests
  DEF PortalInv, SessionTypeOK, sessionVars, PortalTypes, ResultsAddUp
<1>3. \A u \in Tabs : CallFits(u)' /\ ReadingFits(u)'
  BY <1>1, CallsFit DEF CallRests, sessionVars
<1> QED
  BY <1>2, <1>3 DEF PortalInv

LEMMA TabStepKeeps ==
    ASSUME PortalInv, NEW t \in Tabs,
           \/ TabGoesOn(t) \/ ExchangeGoesOn(t) \/ PageGoesOn(t)
           \/ BackendGoesOn(t) \/ UserActs(t)
    PROVE  PortalInv'
<1>1. CASE SessionMoves(t) /\ portalKeeps
  BY <1>1, SessionStep
<1>2. CASE TabGoesOn(t)
  BY <1>1, <1>2, TabLeft DEF TabGoesOn, SessionMoves
<1>3. CASE ExchangeGoesOn(t)
  BY <1>1, <1>3, ContextGoesOn DEF ExchangeGoesOn, SessionMoves
<1>4. CASE PageGoesOn(t)
  <2>1. "election" \in Kinds
    BY DEF Kinds
  <2> QED
    BY <1>4, <2>1, ContextGoesOn, ReadKeeps DEF PageGoesOn
<1>5. CASE BackendGoesOn(t)
  BY <1>1, <1>5, AnswersKeep, GoingOnKeeps DEF BackendGoesOn, SessionMoves
<1>6. CASE UserActs(t)
  BY <1>1, <1>6, CreateOrgKeeps, ReadKeeps DEF UserActs, SessionMoves
<1> QED
  BY <1>2, <1>3, <1>4, <1>5, <1>6

LEMMA NextPortalInv == PortalInv /\ [Next]_vars => PortalInv'
<1> SUFFICES ASSUME PortalInv, [Next]_vars PROVE PortalInv'
  OBVIOUS
<1> QED
  BY RestKeeps, TabStepKeeps, JudgeKeeps, ElectionGoesOnKeeps, TimePassesKeeps
  DEF Next

LEMMA PortalInvStays == Spec => []PortalInv
  BY InitPortalInv, NextPortalInv, PTL DEF Spec

(* The portal, its session, what its requests have read and the election   *)
(* stay well typed, and no more blocks are served than votes recorded.     *)
THEOREM PortalTypesCorrect == Spec => []TypeOK
<1>1. PortalInv => TypeOK
  BY DEF PortalInv, PortalTypes, ElectionTypes, TypeOK, Context, Reading, Answer
<1> QED
  BY <1>1, PortalInvStays, PTL

(* The votes of a result's candidates add up to its total, although        *)
(* candidates, votes and election are read one after the other             *)
(* (ResultsAddUp): for any candidates, and any votes between the reads.    *)
THEOREM ResultsAlwaysAddUp == Spec => []ResultsAddUp
<1>1. PortalInv => ResultsAddUp
  BY DEF PortalInv
<1> QED
  BY <1>1, PortalInvStays, PTL

(* What a step shows in a tab, unless it is nothing or an error, is what   *)
(* one of the last statements of the tab's own request read.               *)
LEMMA ShownByLastStatement ==
    ASSUME PortalInv, [Next]_vars, NEW t \in Tabs,
           answer'[t] # answer[t], answer'[t].kind \in Kinds
    PROVE  CountVotes(t) \/ FetchBlocks(t)
<1>1. answer \in [Tabs -> Answer]
  BY InvParts
<1>2. \A u \in Tabs : answer' = Set(answer, u, Blank) => FALSE
  <2>1. Blank.kind \notin Kinds
    BY Constants DEF Kinds
  <2> QED
    BY <1>1, <2>1 DEF Set
<1>3. \A u \in Tabs : ReadFails(u) => FALSE
  <2>1. Error.kind \notin Kinds
    BY Constants DEF Kinds
  <2> QED
    BY <1>1, <2>1 DEF ReadFails, Show, Set
<1>4. \A u \in Tabs : CountVotes(u) \/ FetchBlocks(u) => u = t
  BY <1>1 DEF CountVotes, FetchBlocks, Show, Set
<1>5. answer' # answer
  OBVIOUS
<1>6. PICK u \in Tabs : \/ TabGoesOn(u) \/ ExchangeGoesOn(u) \/ PageGoesOn(u)
                        \/ BackendGoesOn(u) \/ UserActs(u)
  <2>1. UNCHANGED vars => answer' = answer
    BY DEF vars, portalVars
  <2>2. ElectionGoesOn \/ TimePasses => answer' = answer
    BY DEF ElectionGoesOn, TimePasses
  <2>3. \A w \in Users, verdict \in {"approved", "rejected"} :
            Judge(w, verdict) => answer' = answer
    BY DEF Judge
  <2> QED
    BY <1>5, <2>1, <2>2, <2>3 DEF Next
<1>7. portalKeeps => FALSE
  BY <1>5 DEF portalKeeps, portalVars
<1>8. ~TabGoesOn(u) /\ ~ExchangeGoesOn(u)
  BY <1>2, <1>5, <1>7 DEF TabGoesOn, ExchangeGoesOn, Unmount
<1>9. ~PageGoesOn(u) /\ ~UserActs(u)
  BY <1>2, <1>5, <1>7
  DEF PageGoesOn, UserActs, Mount, fetchAuditStatus, OrgGate, Read, CreateOrg
<1>10. BackendGoesOn(u)
  BY <1>6, <1>8, <1>9
<1>11. CountVotes(u) \/ FetchBlocks(u)
  BY <1>3, <1>5, <1>7, <1>10
  DEF BackendGoesOn, Protected, requireApprovedAuditor, ReadElection,
      ReadCandidates
<1> QED
  BY <1>4, <1>11

(* Election data is only shown to a caller whose organisation was approved *)
(* at some moment of the request (AnsweredOnlyApproved): whoever is signed *)
(* in by then, and whatever the portal's copies of token and status say.   *)
THEOREM OnlyApprovedAreAnswered == Spec => AnsweredOnlyApproved
<1>1. ASSUME PortalInv, [Next]_vars
      PROVE  \A t \in Tabs : answer'[t] # answer[t] /\ answer'[t].kind \in Kinds
                 => reading[t].approvedSince
  <2> SUFFICES ASSUME NEW t \in Tabs, answer'[t] # answer[t],
                      answer'[t].kind \in Kinds
               PROVE  reading[t].approvedSince
    OBVIOUS
  <2>1. CountVotes(t) \/ FetchBlocks(t)
    BY <1>1, ShownByLastStatement
  <2>2. ReadingFits(t)
    BY <1>1 DEF PortalInv
  <2> QED
    BY <2>1, <2>2 DEF CountVotes, FetchBlocks, ReadingFits, Trusted
<1>2. PortalInv /\ [Next]_vars =>
          [\A t \in Tabs : answer'[t] # answer[t] /\ answer'[t].kind \in Kinds
               => reading[t].approvedSince]_vars
  BY <1>1
<1> QED
  BY <1>2, PortalInvStays, PTL DEF Spec, AnsweredOnlyApproved

(* A result is one the election really had between the request and the     *)
(* answer (ResultsAreCurrent): three statements without a transaction lose *)
(* no vote, and the chain never shows more than was recorded.              *)
THEOREM ResultsStayCurrent == Spec => ResultsAreCurrent
<1>1. ASSUME PortalInv, [Next]_vars
      PROVE  \A t \in Tabs : answer'[t] # answer[t] /\ answer'[t].kind \in Kinds =>
                 /\ answer'[t].total <= totalVotes
                 /\ answer'[t].kind # "blockchain"
                        => answer'[t].total >= reading[t].votesBefore
  <2> SUFFICES ASSUME NEW t \in Tabs, answer'[t] # answer[t],
                      answer'[t].kind \in Kinds
               PROVE  /\ answer'[t].total <= totalVotes
                      /\ answer'[t].kind # "blockchain"
                             => answer'[t].total >= reading[t].votesBefore
    OBVIOUS
  <2>1. CountVotes(t) \/ FetchBlocks(t)
    BY <1>1, ShownByLastStatement
  <2>2. /\ reading[t].votesBefore <= totalVotes /\ blocks \in 0 .. totalVotes
        /\ reading[t].votesBefore \in Nat
        /\ ElectionTypes /\ answer \in [Tabs -> Answer]
    BY <1>1, InvParts DEF PortalInv, ReadingFits, ElectionTypes, Reading
  <2>3. totalVotes \in Nat
    BY <2>2, TotalIsSum
  <2>4. CASE CountVotes(t)
    <3>1. answer'[t].total = totalVotes
      BY <2>2, <2>4 DEF CountVotes, Show, Set
    <3> QED
      BY <2>2, <2>3, <3>1
  <2>5. CASE FetchBlocks(t)
    <3>1. answer'[t].total = blocks /\ answer'[t].kind = "blockchain"
      BY <2>2, <2>5 DEF FetchBlocks, Show, Set
    <3> QED
      BY <2>2, <2>3, <3>1
  <2> QED
    BY <2>1, <2>4, <2>5
<1>2. PortalInv /\ [Next]_vars =>
          [\A t \in Tabs : answer'[t] # answer[t] /\ answer'[t].kind \in Kinds =>
               /\ answer'[t].total <= totalVotes
               /\ answer'[t].kind # "blockchain"
                      => answer'[t].total >= reading[t].votesBefore]_vars
  BY <1>1
<1> QED
  BY <1>2, PortalInvStays, PTL DEF Spec, ResultsAreCurrent
=============================================================================
