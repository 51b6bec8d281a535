----------------------------- MODULE RequestProofs -----------------------------
(***************************************************************************)
(* Theorems about Request, for any number of requests, any size of a body, *)
(* any number of attempts and any costs.                                   *)
(***************************************************************************)
EXTENDS Request, FiniteSetTheorems, TLAPS

USE RequestAssumption

-----------------------------------------------------------------------------
(* The redirects a request has followed. *)
Follows(r) == IF followed[r] THEN 1 ELSE 0

(* What is known of one request, wherever it is: how many attempts were    *)
(* sent, how many may follow, and where the latest went.                   *)
RequestInv(r) ==
  /\ attempt[r] = 1 \/ attempt[r] <= MaxAttempts
  /\ at[r] = "queued" => sends[r] = 0 /\ attempt[r] = 1 /\ ~followed[r] /\ r \notin late
  /\ at[r] = "prepare" => sends[r] = attempt[r] - 1 + Follows(r)
  /\ at[r] \notin {"queued", "prepare"} => sends[r] = attempt[r] + Follows(r)
  /\ at[r] = "backoff" => attempt[r] < MaxAttempts
  /\ followed[r] => learned # {} /\ r \notin late
  /\ r \in late => learned # {}
  /\ r \in late /\ at[r] \in {"sending", "hearing", "judge"} => region[r] = Home
  /\ at[r] \in {"hearing", "judge"} /\ answer[r] = "redirect" => region[r] # Home

Inv == TypeOK /\ \A r \in Requests : RequestInv(r)

LEMMA InitInv == Init => Inv
  BY SMT DEF Init, Inv, TypeOK, RequestInv, Follows, Requests

-----------------------------------------------------------------------------
(* Every step keeps the types. *)
LEMMA StepType == ASSUME TypeOK, NEW r \in Requests, Step(r) PROVE TypeOK'
  <1>1. CASE Start(r)
    BY <1>1, SMT DEF TypeOK, Start, Goto, Set, policyVars, countVars, history
  <1>2. CASE Prepare(r)
    BY <1>2, SMT DEF TypeOK, Prepare, Goto, Set, policyVars, countVars
  <1>3. CASE Advance(r)
    BY <1>3, SMT DEF TypeOK, Advance, BodyOf, Tell, Set, policyVars, history
  <1>4. CASE Answer(r)
    BY <1>4, SMT DEF TypeOK, Answer, Answers, Goto, Set, policyVars, countVars, history
  <1>4a. CASE Hear(r)
    BY <1>4a, SMT DEF TypeOK, Hear, Tell, Set, policyVars, history
  <1>4b. CASE Heard(r)
    BY <1>4b, SMT DEF TypeOK, Heard, Goto, Set, policyVars, countVars, history
  <1>5. CASE Follow(r)
    BY <1>5, SMT DEF TypeOK, Follow, Restart, Goto, Set, history
  <1>6. CASE Retry(r)
    BY <1>6, SMT DEF TypeOK, Retry, MayRetry, Cost, Goto, Set, countVars, history
  <1>7. CASE Resume(r)
    BY <1>7, SMT DEF TypeOK, Resume, Restart, Goto, Set, history
  <1>8. CASE End(r)
    BY <1>8, SMT DEF TypeOK, End, Goto, Set, policyVars, countVars, history
  <1> QED BY <1>1, <1>2, <1>3, <1>4, <1>4a, <1>4b, <1>5, <1>6, <1>7, <1>8 DEF Step

(* Every step of one request keeps what is known of each. *)
LEMMA StepInv == ASSUME Inv, NEW r \in Requests, Step(r), NEW q \in Requests PROVE RequestInv(q)'
  <1> USE DEF Inv, TypeOK, RequestInv, Follows
  <1>1. CASE Start(r)
    BY <1>1, SMT DEF Start, Goto, Set, policyVars, countVars, history
  <1>2. CASE Prepare(r)
    BY <1>2, SMT DEF Prepare, Goto, Set, policyVars, countVars
  <1>3. CASE Advance(r)
    BY <1>3, SMT DEF Advance, Tell, Set, policyVars, history
  <1>4. CASE Answer(r)
    BY <1>4, SMT DEF Answer, Answers, Goto, Set, policyVars, countVars, history
  <1>4a. CASE Hear(r)
    BY <1>4a, SMT DEF Hear, Tell, Set, policyVars, history
  <1>4b. CASE Heard(r)
    BY <1>4b, SMT DEF Heard, Goto, Set, policyVars, countVars, history
  <1>5. CASE Follow(r)
    BY <1>5, SMT DEF Follow, Redirected, Restart, Goto, Set, history
  <1>6. CASE Retry(r)
    BY <1>6, SMT DEF Retry, MayRetry, Goto, Set, countVars, history
  <1>7. CASE Resume(r)
    BY <1>7, SMT DEF Resume, Restart, Goto, Set, history
  <1>8. CASE End(r)
    BY <1>8, SMT DEF End, Goto, Set, policyVars, countVars, history
  <1> QED BY <1>1, <1>2, <1>3, <1>4, <1>4a, <1>4b, <1>5, <1>6, <1>7, <1>8 DEF Step

LEMMA NextInv == Inv /\ [Next]_vars => Inv'
  <1> SUFFICES ASSUME Inv, [Next]_vars PROVE Inv'
    OBVIOUS
  <1>1. CASE Next
    BY <1>1, StepType, StepInv DEF Next, Inv
  <1>2. CASE UNCHANGED vars
    BY <1>2 DEF Inv, TypeOK, RequestInv, Follows, vars, policyVars, countVars, history
  <1> QED BY <1>1, <1>2

LEMMA InvHolds == Spec => []Inv
  BY InitInv, NextInv, PTL DEF Spec

-----------------------------------------------------------------------------
(* Every variable keeps its type: no policy overspends its quota, and the  *)
(* counters of RetryPolicy and Inner never go below zero.                  *)
THEOREM TypeCorrect == Spec => []TypeOK
  <1>1. Inv => TypeOK
    BY DEF Inv
  <1> QED BY <1>1, InvHolds, PTL

(* send_watched sends a request max_attempts times at most, and once more  *)
(* when a redirect was followed.                                           *)
THEOREM AttemptsAreBounded == Spec => []SendsBounded
  <1>1. Inv => SendsBounded
    BY SMT DEF Inv, TypeOK, RequestInv, Follows, SendsBounded
  <1> QED BY <1>1, InvHolds, PTL

(* A request that begins after the region of the bucket was learned never  *)
(* follows a redirect.                                                     *)
THEOREM LateOnesAreNotRedirected == Spec => []RedirectsPaidOnce
  <1>1. Inv => RedirectsPaidOnce
    BY DEF Inv, TypeOK, RequestInv, RedirectsPaidOnce
  <1> QED BY <1>1, InvHolds, PTL
-----------------------------------------------------------------------------
(* The bytes of the transfer.  An attempt counts what it sends and what it *)
(* hears, and before the next one its count is taken back; an answer that  *)
(* is good came after the whole body, and was heard to its end.            *)
CountOf(r) ==
  /\ counted[r] = body[r] + heard[r]
  /\ body[r] <= BodyOf(r)
  /\ heard[r] <= IF r \in Gets THEN Size + Document ELSE Document
  /\ at[r] \in {"queued", "prepare", "sending"} => heard[r] = 0
  /\ at[r] = "hearing" => heard[r] <= Carries(r)
  /\ answer[r] = "ok" =>
       /\ at[r] \in {"hearing", "judge", "done"}
       /\ body[r] = BodyOf(r)
       /\ at[r] # "hearing" => heard[r] = Carries(r)

CountInv == bytes = Cardinality(CountedChunks) /\ \A r \in Requests : CountOf(r)

AllChunks(n) == Requests \X (1 .. n)

(* There are finitely many chunks: n times as many as requests.            *)
LEMMA AllChunksCount ==
  ASSUME NEW n \in Nat
  PROVE  /\ IsFiniteSet(AllChunks(n)) /\ IsFiniteSet(Requests)
         /\ Cardinality(AllChunks(n)) = n * Cardinality(Requests)
  <1>1. IsFiniteSet(Requests) /\ Cardinality(Requests) = Count
    BY FS_Interval DEF Requests
  <1>2. IsFiniteSet(1 .. n) /\ Cardinality(1 .. n) = n
    BY FS_Interval
  <1>3. /\ IsFiniteSet(Requests \X (1 .. n))
        /\ Cardinality(Requests \X (1 .. n)) = Cardinality(Requests) * Cardinality(1 .. n)
    BY <1>1, <1>2, FS_Product
  <1> QED BY <1>1, <1>2, <1>3 DEF AllChunks

LEMMA ChunksAreFinite == IsFiniteSet(CountedChunks) /\ Cardinality(CountedChunks) \in Nat
  <1>1. CountedChunks \in SUBSET AllChunks(Size + Document)
    BY DEF CountedChunks, AllChunks
  <1>2. IsFiniteSet(CountedChunks)
    BY <1>1, AllChunksCount, FS_Subset
  <1> QED BY <1>2, FS_CardinalityType

(* Requests that count no more than a body each count no more together.    *)
LEMMA WithinTheTotal ==
  ASSUME \A r \in Requests : counted[r] \in 0 .. Size
  PROVE  Cardinality(CountedChunks) <= Size * Cardinality(Requests)
  <1>1. CountedChunks \in SUBSET AllChunks(Size)
    <2>1. ASSUME NEW c \in Requests \X (1 .. Size + Document), c[2] <= counted[c[1]]
          PROVE  c \in Requests \X (1 .. Size)
      <3>1. c[1] \in Requests /\ c[2] \in 1 .. Size + Document /\ c = <<c[1], c[2]>>
        OBVIOUS
      <3>2. c[2] \in 1 .. Size
        BY <2>1, <3>1
      <3> QED BY <3>1, <3>2
    <2> QED BY <2>1 DEF CountedChunks, AllChunks
  <1> QED BY <1>1, AllChunksCount, FS_Subset

(* A request that counts a chunk adds that chunk.                          *)
LEMMA OneMore ==
  ASSUME TypeOK, NEW r \in Requests, counted[r] < Size + Document,
         counted' = Set(counted, r, counted[r] + 1)
  PROVE  Cardinality(CountedChunks)' = Cardinality(CountedChunks) + 1
  <1>1. counted \in [Requests -> Nat] /\ counted[r] \in Nat
    BY DEF TypeOK
  <1>2. PICK n \in 1 .. Size + Document : n = counted[r] + 1
    BY <1>1
  <1>3. CountedChunks' = CountedChunks \cup {<<r, n>>}
    <2>1. \A q \in Requests : counted'[q] = IF q = r THEN n ELSE counted[q]
      BY <1>1, <1>2 DEF Set
    <2>2. \A q \in Requests, k \in 1 .. Size + Document :
            k <= counted'[q] <=> k <= counted[q] \/ (q = r /\ k = n)
      BY <1>1, <1>2, <2>1
    <2>3. \A c \in AllChunks(Size + Document) :
            c[2] <= counted'[c[1]] <=> c[2] <= counted[c[1]] \/ c = <<r, n>>
      BY <2>2 DEF AllChunks
    <2>4. <<r, n>> \in AllChunks(Size + Document)
      BY DEF AllChunks
    <2>5. CountedChunks' = {c \in AllChunks(Size + Document) : c[2] <= counted'[c[1]]}
      BY DEF CountedChunks, AllChunks
    <2>6. CountedChunks = {c \in AllChunks(Size + Document) : c[2] <= counted[c[1]]}
      BY DEF CountedChunks, AllChunks
    <2> QED BY <2>3, <2>4, <2>5, <2>6
  <1>4. <<r, n>> \notin CountedChunks
    BY <1>1, <1>2 DEF CountedChunks
  <1> QED BY <1>3, <1>4, ChunksAreFinite, FS_AddElement

(* A request that starts again takes back all it counted, and no more.     *)
LEMMA TakenBack ==
  ASSUME TypeOK, NEW r \in Requests, counted[r] <= Size + Document, counted' = Set(counted, r, 0)
  PROVE  /\ counted[r] <= Cardinality(CountedChunks)
         /\ Cardinality(CountedChunks)' = Cardinality(CountedChunks) - counted[r]
  <1>1. counted \in [Requests -> Nat] /\ counted[r] \in Nat
    BY DEF TypeOK
  <1> DEFINE Mine == {r} \X (1 .. counted[r])
  <1>2. IsFiniteSet(Mine) /\ Cardinality(Mine) = counted[r]
    <2>1. IsFiniteSet({r}) /\ Cardinality({r}) = 1
      BY FS_Singleton
    <2>2. IsFiniteSet(1 .. counted[r]) /\ Cardinality(1 .. counted[r]) = counted[r]
      BY <1>1, FS_Interval
    <2>3. IsFiniteSet(Mine) /\ Cardinality(Mine) = Cardinality({r}) * Cardinality(1 .. counted[r])
      BY <2>1, <2>2, FS_Product
    <2> QED BY <1>1, <2>1, <2>2, <2>3
  <1>3. Mine \subseteq CountedChunks
    BY <1>1 DEF CountedChunks
  <1>4. CountedChunks' = CountedChunks \ Mine
    <2>1. \A q \in Requests : counted'[q] = IF q = r THEN 0 ELSE counted[q]
      BY <1>1 DEF Set
    <2>2. \A q \in Requests, k \in 1 .. Size + Document :
            k <= counted'[q] <=> k <= counted[q] /\ ~(q = r /\ k \in 1 .. counted[r])
      BY <1>1, <2>1
    <2>3. \A c \in AllChunks(Size + Document) :
            c[2] <= counted'[c[1]] <=> c[2] <= counted[c[1]] /\ c \notin Mine
      BY <2>2 DEF AllChunks
    <2>4. CountedChunks' = {c \in AllChunks(Size + Document) : c[2] <= counted'[c[1]]}
      BY DEF CountedChunks, AllChunks
    <2>5. CountedChunks = {c \in AllChunks(Size + Document) : c[2] <= counted[c[1]]}
      BY DEF CountedChunks, AllChunks
    <2> QED BY <2>3, <2>4, <2>5
  <1> HIDE DEF Mine
  <1>5. CountedChunks \cap Mine = Mine
    BY <1>3
  <1>6. Cardinality(CountedChunks \ Mine) = Cardinality(CountedChunks) - Cardinality(CountedChunks \cap Mine)
    BY ChunksAreFinite, FS_Difference
  <1>7. Cardinality(Mine) <= Cardinality(CountedChunks)
    BY <1>3, ChunksAreFinite, FS_Subset
  <1> QED BY <1>2, <1>4, <1>5, <1>6, <1>7

LEMMA CountInit == Init => CountInv
  <1> SUFFICES ASSUME Init PROVE CountInv
    OBVIOUS
  <1>1. CountedChunks = {}
    BY DEF Init, CountedChunks
  <1>2. bytes = Cardinality(CountedChunks)
    BY <1>1, FS_EmptySet DEF Init
  <1>3. \A r \in Requests : CountOf(r)
    BY DEF Init, CountOf, BodyOf, Carries
  <1> QED BY <1>2, <1>3 DEF CountInv

(* Every step keeps what is known of each request's count.                 *)
LEMMA CountOfStep ==
  ASSUME TypeOK, CountInv, NEW r \in Requests, Step(r), NEW q \in Requests
  PROVE  CountOf(q)'
  <1>1. CountOf(q) /\ CountOf(r)
    BY DEF CountInv
  <1> USE <1>1 DEF TypeOK, CountOf, BodyOf, Carries
  <1>3. CASE Start(r)
    BY <1>3, SMT DEF Start, Goto, Set, policyVars, countVars, history
  <1>4. CASE Prepare(r)
    BY <1>4, SMT DEF Prepare, Goto, Set, policyVars, countVars
  <1>5. CASE Advance(r)
    BY <1>5, SMT DEF Advance, Tell, Set, policyVars, history
  <1>6. CASE Answer(r)
    BY <1>6, SMT DEF Answer, Answers, Goto, Set, policyVars, countVars, history
  <1>7. CASE Hear(r)
    BY <1>7, SMT DEF Hear, Tell, Set, policyVars, history
  <1>8. CASE Heard(r)
    BY <1>8, SMT DEF Heard, Goto, Set, policyVars, countVars, history
  <1>9. CASE Follow(r)
    BY <1>9, SMT DEF Follow, Redirected, Restart, Goto, Set, history
  <1>10. CASE Retry(r)
    BY <1>10, SMT DEF Retry, MayRetry, Goto, Set, countVars, history
  <1>11. CASE Resume(r)
    BY <1>11, SMT DEF Resume, Restart, Goto, Set, history
  <1>12. CASE End(r)
    BY <1>12, SMT DEF End, Goto, Set, policyVars, countVars, history
  <1> QED BY <1>3, <1>4, <1>5, <1>6, <1>7, <1>8, <1>9, <1>10, <1>11, <1>12 DEF Step

(* Every step keeps the total exact.                                       *)
LEMMA TotalStep ==
  ASSUME TypeOK, CountInv, NEW r \in Requests, Step(r)
  PROVE  bytes' = Cardinality(CountedChunks)'
  <1> /\ bytes = Cardinality(CountedChunks)
      /\ counted[r] \in Nat /\ counted[r] <= Size + Document
    BY DEF TypeOK, CountInv, CountOf, BodyOf
  <1>1. CASE UNCHANGED <<counted, bytes>>
    BY <1>1 DEF CountedChunks
  <1>2. CASE Restart(r)
    <2>1. /\ counted' = Set(counted, r, 0)
          /\ bytes' = IF counted[r] > bytes THEN 0 ELSE bytes - counted[r]
      BY <1>2 DEF Restart
    <2>2. /\ counted[r] <= Cardinality(CountedChunks)
          /\ Cardinality(CountedChunks)' = Cardinality(CountedChunks) - counted[r]
      BY <2>1, TakenBack
    <2> QED BY <2>1, <2>2, ChunksAreFinite
  <1>3. CASE Tell(r) /\ counted[r] < Size + Document
    BY <1>3, OneMore DEF Tell
  <1>4. (Advance(r) \/ Hear(r)) => Tell(r) /\ counted[r] < Size + Document
    <2>1. CountOf(r) /\ body[r] \in Nat /\ heard[r] \in Nat
      BY DEF CountInv, TypeOK
    <2>2. Advance(r) => Tell(r) /\ counted[r] < Size + Document
      BY <2>1 DEF Advance, CountOf, BodyOf
    <2>3. Hear(r) => Tell(r) /\ counted[r] < Size + Document
      BY <2>1 DEF Hear, CountOf, BodyOf, Carries
    <2> QED BY <2>2, <2>3
  <1>5. (Follow(r) \/ Resume(r)) => Restart(r)
    BY DEF Follow, Resume
  <1>6. (Start(r) \/ Prepare(r) \/ Answer(r) \/ Heard(r) \/ Retry(r) \/ End(r))
          => UNCHANGED <<counted, bytes>>
    BY DEF Start, Prepare, Answer, Heard, Retry, End, countVars
  <1> QED BY <1>1, <1>2, <1>3, <1>4, <1>5, <1>6 DEF Step

(* The progress bar is exact: its bytes are the chunks that the attempts   *)
(* under way and the last ones of the requests that ended have moved; a    *)
(* success counts its body or its object once, and only the document of an *)
(* answer takes the bar past the total.                                    *)
THEOREM ProgressIsExact == Spec => []ProgressExact
  <1>1. TypeOK /\ CountInv /\ [Next]_vars => CountInv'
    <2> SUFFICES ASSUME TypeOK, CountInv, [Next]_vars PROVE CountInv'
      OBVIOUS
    <2>1. CASE Next
      BY <2>1, CountOfStep, TotalStep DEF Next, CountInv
    <2>2. CASE UNCHANGED vars
      BY <2>2 DEF CountInv, CountOf, CountedChunks, Carries, vars, countVars
    <2> QED BY <2>1, <2>2
  <1>2. TypeOK /\ CountInv => ProgressExact
    <2> SUFFICES ASSUME TypeOK, CountInv PROVE ProgressExact
      OBVIOUS
    <2>1. \A r \in Requests : CountOf(r) /\ body[r] \in Nat /\ heard[r] \in Nat
      BY DEF TypeOK, CountInv
    <2>2. \A r \in Requests :
            /\ counted[r] = body[r] + heard[r]
            /\ at[r] = "done" /\ answer[r] = "ok" => counted[r] = Size
      BY <2>1 DEF CountOf, BodyOf, Carries
    <2>3. ASSUME \A r \in Requests : ~(answer[r] # "ok" /\ heard[r] > 0)
          PROVE  Cardinality(CountedChunks) <= Size * Cardinality(Requests)
      <3>1. \A r \in Requests : counted[r] \in 0 .. Size
        BY <2>1, <2>3 DEF CountOf, BodyOf, Carries
      <3> QED BY <3>1, WithinTheTotal
    <2>4. Cardinality(CountedChunks) \in Nat /\ Cardinality(Requests) \in Nat
      BY ChunksAreFinite, AllChunksCount, FS_CardinalityType
    <2> QED BY <2>2, <2>3, <2>4 DEF ProgressExact, CountInv
  <1> QED BY <1>1, <1>2, CountInit, TypeCorrect, PTL DEF Spec
===============================================================================
