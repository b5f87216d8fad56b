------------------------ MODULE ConversationMemoryProofs ------------------------
(***************************************************************************)
(* Proofs about ConversationMemory for any number of requests, any costs   *)
(* and budgets and any number of faults: one turn at a time, the numbering *)
(* of the turns that rests on it, and on both the histories: complete,     *)
(* within the budget, with a summary that only moves forward.              *)
(***************************************************************************)
EXTENDS ConversationMemory, WellFoundedInduction, SequenceTheorems, FiniteSetTheorems, TLAPS

--------------------------------------------------------------------------------
(* Induction on natural numbers, with a set in place of a predicate. *)

\* A set of natural numbers that is not empty has a least one.
LEMMA NatMin ==
  ASSUME NEW T, T \subseteq Nat, T # {}
  PROVE  \E n \in T : \A m \in T : n <= m
<1> DEFINE R == OpToRel(<, Nat)
<1>1. IsWellFoundedOn(R, Nat)
  BY NatLessThanWellFounded
<1>2. \E x \in T : \A y \in T : ~(<<y, x>> \in R)
  <2> HIDE DEF R
  <2> QED BY <1>1, WFMin
<1>3. \A x, y \in Nat : y < x => <<y, x>> \in R
  BY DEF OpToRel
<1> HIDE DEF R
<1>4. PICK n \in T : \A m \in T : ~(<<m, n>> \in R)
  BY <1>2
<1>5. \A m \in T : ~(m < n)
  BY <1>3, <1>4
<1> QED BY <1>5

\* A set that has 0, and with each number the next, has every natural number.
LEMMA NatSetInduction ==
  ASSUME NEW S, 0 \in S, \A n \in Nat : n \in S => n + 1 \in S
  PROVE  Nat \subseteq S
<1> SUFFICES ASSUME Nat \ S # {} PROVE FALSE
  OBVIOUS
<1>1. PICK n \in Nat \ S : \A m \in Nat \ S : n <= m
  <2>1. Nat \ S \subseteq Nat
    OBVIOUS
  <2> QED BY <2>1, NatMin
<1>2. n # 0
  OBVIOUS
<1>3. n - 1 \in Nat /\ ~(n <= n - 1) /\ (n - 1) + 1 = n
  BY <1>2
<1>4. n - 1 \in S
  BY <1>1, <1>3
<1> QED BY <1>3, <1>4

--------------------------------------------------------------------------------

\* What the proofs need of the types; summaries and histories play no part.
Types ==
  /\ DOMAIN conversation = {"running", "through", "summary"}
  /\ turns \in Seq(Turn)
  /\ pc \in [Requests -> {"idle", "claim"} \cup Claimed \cup Ended \cup Stranded]
  /\ number \in [Requests -> Nat]

\* The number a request has read is still the last one when it creates its turn:
\* only the request that works on the conversation appends, and it reads only once.
NumberInv == \A r \in Requests : pc[r] = "create" => number[r] = Len(turns)

IInv == Types /\ OneTurnAtATime /\ TurnsNumbered /\ NumberInv

\* A sequence of turns after one was appended, or some were settled.
LEMMA AppendTurn ==
  ASSUME NEW ts \in Seq(Turn), NEW t \in Turn
  PROVE  /\ Append(ts, t) \in Seq(Turn) /\ Len(Append(ts, t)) = Len(ts) + 1
         /\ Len(ts) \in Nat /\ DOMAIN ts = 1 .. Len(ts)
         /\ DOMAIN Append(ts, t) = 1 .. Len(ts) + 1
         /\ \A i \in 1 .. Len(ts) : Append(ts, t)[i] = ts[i]
         /\ Append(ts, t)[Len(ts) + 1] = t
  OBVIOUS

\* Settling a turn changes its status alone.
LEMMA SettleFacts ==
  ASSUME turns \in Seq(Turn), NEW r, NEW s \in {"completed", "failed"}, Settle(r, s)
  PROVE  /\ turns' \in Seq(Turn) /\ Len(turns') = Len(turns) /\ DOMAIN turns' = DOMAIN turns
         /\ \A i \in DOMAIN turns : turns'[i].number = turns[i].number
<1>1. DOMAIN turns = 1 .. Len(turns) /\ Len(turns) \in Nat /\ \A i \in 1 .. Len(turns) : turns[i] \in Turn
  OBVIOUS
<1>2. \A t \in Turn : [t EXCEPT !.status = s] \in Turn /\ [t EXCEPT !.status = s].number = t.number
  BY DEF Turn
<1>3. turns' \in [1 .. Len(turns) -> Turn]
  BY <1>1, <1>2 DEF Settle
<1>4. turns' \in Seq(Turn) /\ Len(turns') = Len(turns)
  BY <1>1, <1>3
<1>5. \A i \in DOMAIN turns : turns'[i].number = turns[i].number
  BY <1>1, <1>2 DEF Settle
<1> QED BY <1>1, <1>3, <1>4, <1>5

\* The initial state satisfies the invariant.
LEMMA Initially == Init => IInv
  BY DEF Init, IInv, Types, OneTurnAtATime, TurnsNumbered, NumberInv, NoRow, Claimed

\* Only these steps touch the rows, the places and the numbers.
LEMMA TypeStep == IInv /\ [Next]_vars => Types'
<1> SUFFICES ASSUME IInv, [Next]_vars PROVE Types'
  OBVIOUS
<1> USE DEF IInv, Types
<1>1. (DOMAIN conversation)' = DOMAIN conversation
  BY DEF Next, Step, Load, Claim, Refresh, Select, Summarize, SummaryFails, Checkpoint, ReadNumber,
         CreateTurn, RunEnds, Release, Crash, rows, vars
<1>2. pc' \in [Requests -> {"idle", "claim"} \cup Claimed \cup Ended \cup Stranded]
  <2>1. \/ pc' = pc
        \/ \E r \in Requests, place \in {"idle", "claim"} \cup Claimed \cup Ended \cup Stranded :
             pc' = [pc EXCEPT ![r] = place]
    BY ZenonT(30) DEF Next, Step, Load, Claim, Refresh, Select, Summarize, SummaryFails, Checkpoint,
         ReadNumber, CreateTurn, RunEnds, Release, Crash, Goto, Claimed, Ended, Stranded, vars
  <2> QED BY <2>1
<1>3. turns' \in Seq(Turn)
  <2>1. ASSUME NEW r \in Requests, CreateTurn(r) PROVE turns' \in Seq(Turn)
    <3>1. CASE turns' = turns BY <3>1
    <3>2. ASSUME NEW c \in Costs,
                 turns' = Append(turns, [number |-> number[r] + 1, status |-> "running", cost |-> c])
          PROVE  turns' \in Seq(Turn)
      <4> DEFINE t == [number |-> number[r] + 1, status |-> "running", cost |-> c]
      <4>1. number[r] + 1 \in Nat \ {0}
        OBVIOUS
      <4>2. t \in Turn
        BY <4>1 DEF Turn
      <4>3. turns' = Append(turns, t)
        BY <3>2
      <4> HIDE DEF t
      <4> QED BY <4>2, <4>3, AppendTurn
    <3> QED BY <2>1, <3>1, <3>2 DEF CreateTurn
  <2>2. ASSUME NEW r \in Requests, RunEnds(r) PROVE turns' \in Seq(Turn)
    BY <2>2, SettleFacts DEF RunEnds
  <2>3. ASSUME turns' = turns PROVE turns' \in Seq(Turn)
    BY <2>3
  <2>4. (\E r \in Requests : CreateTurn(r) \/ RunEnds(r)) \/ turns' = turns
    BY Zenon DEF Next, Step, Load, Claim, Refresh, Select, Summarize, SummaryFails, Checkpoint,
           ReadNumber, Release, Crash, rows, vars
  <2> QED BY <2>1, <2>2, <2>3, <2>4
<1>4. number' \in [Requests -> Nat]
  <2>1. LastNumber \in Nat
    <3>1. CASE turns = <<>> BY <3>1 DEF LastNumber
    <3>2. CASE turns # <<>>
      <4>1. Len(turns) \in 1 .. Len(turns)
        BY <3>2, EmptySeq, LenProperties
      <4>2. turns[Len(turns)] \in Turn
        BY <4>1, ElementOfSeq
      <4>3. turns[Len(turns)].number \in Nat
        BY <4>2 DEF Turn
      <4> QED BY <3>2, <4>3 DEF LastNumber
    <3> QED BY <3>1, <3>2
  <2>2. \/ number' = number
        \/ \E r \in Requests, n \in {0, LastNumber} : number' = [number EXCEPT ![r] = n]
    BY ZenonT(30) DEF Next, Step, Load, Claim, Refresh, Select, Summarize, SummaryFails, Checkpoint,
         ReadNumber, CreateTurn, RunEnds, Release, Crash, Forget, locals, vars
  <2> QED BY <2>1, <2>2
<1> QED BY <1>1, <1>2, <1>3, <1>4


\* What a step does to its request's place and to the flag: it stays outside, takes
\* a free conversation, works on, or leaves the conversation.
LEMMA PlaceFacts ==
  ASSUME Types, NEW r \in Requests, Load(r) \/ Step(r) \/ Crash(r)
  PROVE  \E place :
           /\ pc' = [pc EXCEPT ![r] = place]
           /\ \/ place \notin Claimed /\ conversation'.running = conversation.running
              \/ ~conversation.running /\ conversation'.running
              \/ pc[r] \in Claimed /\ conversation'.running = conversation.running
              \/ pc[r] \in Claimed /\ place \notin Claimed
<1> USE DEF Types, Goto
<1>0. {"claim", "busy", "error"} \cap Claimed = {}
  BY DEF Claimed
<1>1. CASE Load(r)
  BY <1>1, <1>0, Zenon DEF Load, rows
<1>2. CASE Claim(r)
  <2>1. CASE ~conversation.running /\ conversation' = [conversation EXCEPT !.running = TRUE]
             /\ Goto(r, "refresh")
    BY <2>1
  <2>2. CASE Goto(r, "busy") /\ conversation' = conversation
    BY <2>2, <1>0, Zenon
  <2>3. CASE Goto(r, "error") /\ conversation' = conversation
    BY <2>3, <1>0, Zenon
  <2> QED BY <1>2, <2>1, <2>2, <2>3 DEF Claim
<1>3. CASE Crash(r)
  BY <1>3, Zenon DEF Crash, rows
<1>4. CASE Release(r)
  <2>1. pc[r] \in Claimed
    BY <1>4 DEF Release, Claimed
  <2>2. Goto(r, "done") \/ Goto(r, "unreleased")
    BY <1>4 DEF Release
  <2> QED BY <2>1, <2>2, Zenon DEF Claimed
<1>5. CASE Checkpoint(r)
  <2>1. pc[r] \in Claimed
    BY <1>5 DEF Checkpoint, Claimed
  <2>2. conversation'.running = conversation.running
    BY <1>5 DEF Checkpoint
  <2>3. \E place : pc' = [pc EXCEPT ![r] = place]
    BY <1>5, Zenon DEF Checkpoint
  <2> QED BY <2>1, <2>2, <2>3, Zenon
<1>6. CASE \/ Refresh(r) \/ Select(r) \/ Summarize(r) \/ SummaryFails(r) \/ ReadNumber(r)
           \/ CreateTurn(r) \/ RunEnds(r)
  <2>1. pc[r] \in Claimed
    BY <1>6 DEF Refresh, Select, Summarize, SummaryFails, ReadNumber, CreateTurn, RunEnds, Claimed
  <2>2. conversation' = conversation
    BY <1>6, Zenon DEF Refresh, Select, Summarize, SummaryFails, ReadNumber, CreateTurn, RunEnds, rows
  <2>3. \E place : pc' = [pc EXCEPT ![r] = place]
    BY <1>6, Zenon DEF Refresh, Select, Summarize, SummaryFails, ReadNumber, CreateTurn, RunEnds
  <2> QED BY <2>1, <2>2, <2>3, Zenon
<1> QED BY <1>1, <1>2, <1>3, <1>4, <1>5, <1>6, Zenon DEF Step

\* A request takes the conversation only when it is free.
LEMMA OneTurnStep == IInv /\ [Next]_vars => OneTurnAtATime'
<1> SUFFICES ASSUME IInv, [Next]_vars PROVE OneTurnAtATime'
  OBVIOUS
<1>1. CASE UNCHANGED vars
  BY <1>1 DEF IInv, OneTurnAtATime, vars, rows
<1>2. ASSUME NEW r \in Requests, Load(r) \/ Step(r) \/ Crash(r) PROVE OneTurnAtATime'
  <2>1. PICK place :
          /\ pc' = [pc EXCEPT ![r] = place]
          /\ \/ place \notin Claimed /\ conversation'.running = conversation.running
             \/ ~conversation.running /\ conversation'.running
             \/ pc[r] \in Claimed /\ conversation'.running = conversation.running
             \/ pc[r] \in Claimed /\ place \notin Claimed
    BY <1>2, PlaceFacts, Zenon DEF IInv
  <2>2. DOMAIN pc = Requests
    BY DEF IInv, Types
  <2>3. /\ \A x, y \in Requests : pc[x] \in Claimed /\ pc[y] \in Claimed => x = y
        /\ \A x \in Requests : pc[x] \in Claimed => conversation.running
    BY Zenon DEF IInv, OneTurnAtATime
  <2>4. pc'[r] = place /\ \A x \in Requests \ {r} : pc'[x] = pc[x]
    BY <2>1, <2>2
  <2>5. ASSUME NEW x \in Requests, NEW y \in Requests, pc'[x] \in Claimed, pc'[y] \in Claimed
        PROVE  x = y
    BY <2>1, <2>3, <2>4, <2>5, Zenon
  <2>6. ASSUME NEW x \in Requests, pc'[x] \in Claimed PROVE conversation'.running
    BY <2>1, <2>3, <2>4, <2>6, Zenon
  <2> QED BY <2>5, <2>6, Zenon DEF OneTurnAtATime
<1> QED BY <1>1, <1>2, Zenon DEF Next

\* The last turn carries the highest number, which is how many turns there are.
LEMMA LastIsLength == Types /\ TurnsNumbered => LastNumber = Len(turns) /\ Len(turns) \in Nat
<1> SUFFICES ASSUME Types, TurnsNumbered PROVE LastNumber = Len(turns) /\ Len(turns) \in Nat
  OBVIOUS
<1>1. turns \in Seq(Turn) /\ Len(turns) \in Nat /\ DOMAIN turns = 1 .. Len(turns)
  BY DEF Types
<1>2. CASE turns = <<>>
  BY <1>1, <1>2 DEF LastNumber
<1>3. CASE turns # <<>>
  <2>1. Len(turns) \in 1 .. Len(turns)
    BY <1>1, <1>3, EmptySeq, LenProperties
  <2> QED BY <1>1, <1>3, <2>1 DEF LastNumber, TurnsNumbered
<1> QED BY <1>2, <1>3

\* What a step does to the turns and to the number its request has read.
LEMMA TurnFacts ==
  ASSUME IInv, NEW r \in Requests, Load(r) \/ Step(r) \/ Crash(r)
  PROVE  /\ TurnsNumbered'
         /\ pc'[r] = "create" => number'[r] = Len(turns')
         /\ pc[r] \in Claimed \/ turns' = turns
         /\ \A x \in Requests \ {r} : pc'[x] = pc[x] /\ number'[x] = number[x]
<1> USE DEF IInv, Types
<1>1. CASE \/ Load(r) \/ Claim(r) \/ Refresh(r) \/ Select(r) \/ Summarize(r) \/ SummaryFails(r)
           \/ Checkpoint(r) \/ Release(r) \/ Crash(r)
  <2>1. turns' = turns
    BY <1>1, Zenon DEF Load, Claim, Refresh, Select, Summarize, SummaryFails, Checkpoint, Release,
         Crash, rows
  <2>2. pc'[r] # "create"
    BY <1>1 DEF Load, Claim, Refresh, Select, Summarize, SummaryFails, Checkpoint, Release, Crash, Goto
  <2>3. \A x \in Requests \ {r} : pc'[x] = pc[x] /\ number'[x] = number[x]
    BY <1>1 DEF Load, Claim, Refresh, Select, Summarize, SummaryFails, Checkpoint, Release, Crash,
         Goto, Forget, locals
  <2> QED BY <2>1, <2>2, <2>3 DEF TurnsNumbered
<1>2. CASE ReadNumber(r)
  <2>1. turns' = turns /\ pc[r] \in Claimed
    BY <1>2 DEF ReadNumber, rows, Claimed
  <2>2. number'[r] = LastNumber
    BY <1>2 DEF ReadNumber
  <2>3. \A x \in Requests \ {r} : pc'[x] = pc[x] /\ number'[x] = number[x]
    BY <1>2 DEF ReadNumber, Goto
  <2> QED BY <2>1, <2>2, <2>3, LastIsLength DEF TurnsNumbered
<1>3. CASE CreateTurn(r)
  <2>1. pc[r] = "create" /\ pc[r] \in Claimed /\ number[r] = Len(turns)
    BY <1>3 DEF CreateTurn, Claimed, NumberInv
  <2>2. pc'[r] # "create" /\ \A x \in Requests \ {r} : pc'[x] = pc[x] /\ number'[x] = number[x]
    BY <1>3 DEF CreateTurn, Goto, locals
  <2>3. ASSUME turns' = turns PROVE TurnsNumbered'
    BY <2>3 DEF TurnsNumbered
  <2>4. ASSUME NEW c \in Costs,
               turns' = Append(turns, [number |-> number[r] + 1, status |-> "running", cost |-> c])
        PROVE  TurnsNumbered'
    <3> DEFINE t == [number |-> number[r] + 1, status |-> "running", cost |-> c]
    <3>1. number[r] \in Nat /\ number[r] + 1 \in Nat \ {0}
      OBVIOUS
    <3>2. t \in Turn
      BY <3>1 DEF Turn
    <3>3. t.number = Len(turns) + 1
      BY <2>1
    <3>4. turns' = Append(turns, t) /\ turns \in Seq(Turn)
      BY <2>4
    <3> HIDE DEF t
    <3>5. /\ DOMAIN turns' = 1 .. Len(turns) + 1 /\ DOMAIN turns = 1 .. Len(turns)
          /\ Len(turns) \in Nat /\ turns'[Len(turns) + 1] = t
          /\ \A i \in 1 .. Len(turns) : turns'[i] = turns[i]
      BY <3>2, <3>4, AppendTurn
    <3> QED BY <3>3, <3>5 DEF TurnsNumbered
  <2>5. TurnsNumbered'
    BY <1>3, <2>3, <2>4 DEF CreateTurn
  <2> QED BY <2>1, <2>2, <2>5, Zenon
<1>4. CASE RunEnds(r)
  <2>1. pc[r] \in Claimed /\ pc'[r] # "create"
    BY <1>4 DEF RunEnds, Claimed, Goto
  <2>2. \A x \in Requests \ {r} : pc'[x] = pc[x] /\ number'[x] = number[x]
    BY <1>4 DEF RunEnds, Goto, locals
  <2>3. ASSUME turns' = turns PROVE TurnsNumbered'
    BY <2>3 DEF TurnsNumbered
  <2>4. ASSUME NEW s \in {"completed", "failed"}, Settle(r, s) PROVE TurnsNumbered'
    BY <2>4, SettleFacts DEF TurnsNumbered
  <2>5. TurnsNumbered'
    BY <1>4, <2>3, <2>4 DEF RunEnds
  <2> QED BY <2>1, <2>2, <2>5, Zenon
<1> QED BY <1>1, <1>2, <1>3, <1>4, Zenon DEF Step

\* A turn is only appended by the one request that works on the conversation, so
\* no other request holds a number that has gone stale.
LEMMA NumberStep == IInv /\ [Next]_vars => TurnsNumbered' /\ NumberInv'
<1> SUFFICES ASSUME IInv, [Next]_vars PROVE TurnsNumbered' /\ NumberInv'
  OBVIOUS
<1>1. CASE UNCHANGED vars
  BY <1>1 DEF IInv, TurnsNumbered, NumberInv, vars, rows, locals
<1>2. ASSUME NEW r \in Requests, Load(r) \/ Step(r) \/ Crash(r) PROVE TurnsNumbered' /\ NumberInv'
  <2>1. /\ TurnsNumbered'
        /\ pc'[r] = "create" => number'[r] = Len(turns')
        /\ pc[r] \in Claimed \/ turns' = turns
        /\ \A x \in Requests \ {r} : pc'[x] = pc[x] /\ number'[x] = number[x]
    BY <1>2, TurnFacts, Zenon
  <2>2. ASSUME NEW x \in Requests \ {r}, pc'[x] = "create" PROVE number'[x] = Len(turns')
    <3>1. pc[x] = "create" /\ pc[x] \in Claimed /\ number[x] = Len(turns)
      BY <2>1, <2>2 DEF Claimed, IInv, NumberInv
    <3>2. turns' = turns
      BY <2>1, <3>1, Zenon DEF IInv, OneTurnAtATime
    <3> QED BY <2>1, <3>1, <3>2
  <2>3. NumberInv'
    BY <2>1, <2>2 DEF NumberInv
  <2> QED BY <2>1, <2>3
<1> QED BY <1>1, <1>2, Zenon DEF Next

--------------------------------------------------------------------------------

\* Every reachable state satisfies the inductive invariant.
THEOREM Inductive == Spec => []IInv
<1>1. IInv /\ [Next]_vars => IInv'
  BY TypeStep, OneTurnStep, NumberStep DEF IInv
<1> QED BY Initially, <1>1, PTL DEF Spec

\* However many requests, and whichever processes serve them, at most one works on
\* the conversation, and its row says so meanwhile (the UPDATE of
\* ConversationMemory.append).
THEOREM OneTurn == Spec => []OneTurnAtATime
<1>1. IInv => OneTurnAtATime
  BY DEF IInv
<1> QED BY Inductive, <1>1, PTL

\* The turns are numbered 1, 2, 3, ... without a gap or a repeat, although the number
\* is read in one transaction of append and stored in another.
THEOREM TurnsAreNumbered == Spec => []TurnsNumbered
<1>1. IInv => TurnsNumbered
  BY DEF IInv
<1> QED BY Inductive, <1>1, PTL

--------------------------------------------------------------------------------
(* The turns a request selects. *)

\* What the recursive function of CompletedUpTo computes, one turn after the other.
LEMMA CompletedUpToEquation ==
  ASSUME turns \in Seq(Turn), NEW n
  PROVE  /\ CompletedUpTo(n)[0] = <<>>
         /\ \A k \in 1 .. Len(turns) : CompletedUpTo(n)[k] =
              IF Completed(turns[k]) /\ turns[k].number > n
              THEN Append(CompletedUpTo(n)[k - 1], turns[k]) ELSE CompletedUpTo(n)[k - 1]
<1> DEFINE L == Len(turns)
           Grown(g, k) == IF k = 0 THEN <<>>
                          ELSE IF Completed(turns[k]) /\ turns[k].number > n
                          THEN Append(g[k - 1], turns[k]) ELSE g[k - 1]
           f == CHOOSE g : g = [k \in 0 .. L |-> Grown(g, k)]
           T == {m \in Nat : \E g : \A k \in 0 .. L : k <= m => g[k] = Grown(g, k)}
<1>1. L \in Nat
  OBVIOUS
<1>2. \A g, h, k : k \in 1 .. L /\ g[k - 1] = h[k - 1] => Grown(g, k) = Grown(h, k)
  OBVIOUS
<1>3. \A g, h : Grown(g, 0) = Grown(h, 0)
  OBVIOUS
<1>4. CompletedUpTo(n) = f
  BY DEF CompletedUpTo
<1>5. /\ \A g : Grown(g, 0) = <<>>
      /\ \A g : \A k \in 1 .. L : Grown(g, k) =
           IF Completed(turns[k]) /\ turns[k].number > n
           THEN Append(g[k - 1], turns[k]) ELSE g[k - 1]
  BY <1>1
<1> HIDE DEF L, Grown
<1>6. 0 \in T
  <2> DEFINE g == [k \in 0 .. L |-> Grown(<<>>, 0)]
  <2>1. \A k \in 0 .. L : k <= 0 => k = 0
    BY <1>1
  <2>2. g[0] = Grown(g, 0)
    <3>1. g[0] = Grown(<<>>, 0)
      BY <1>1
    <3> HIDE DEF g
    <3> QED BY <1>3, <3>1
  <2> HIDE DEF g
  <2>3. \A k \in 0 .. L : k <= 0 => g[k] = Grown(g, k)
    BY <2>1, <2>2
  <2> QED BY <2>3
<1>7. ASSUME NEW m \in Nat, m \in T PROVE m + 1 \in T
  <2>1. PICK g : \A k \in 0 .. L : k <= m => g[k] = Grown(g, k)
    BY <1>7
  <2> DEFINE h == [k \in 0 .. L |-> Grown(g, k)]
  <2>2. \A k \in 0 .. L : h[k] = Grown(g, k)
    OBVIOUS
  <2> HIDE DEF h
  <2>3. ASSUME NEW k \in 0 .. L, k <= m + 1 PROVE h[k] = Grown(h, k)
    <3>1. CASE k = 0
      BY <1>3, <2>2, <3>1
    <3>2. CASE k # 0
      <4>1. k - 1 \in 0 .. L /\ k - 1 <= m /\ k \in 1 .. L
        BY <1>1, <2>3, <3>2
      <4>2. h[k - 1] = g[k - 1]
        BY <2>1, <2>2, <4>1
      <4> QED BY <1>2, <2>2, <4>1, <4>2
    <3> QED BY <3>1, <3>2
  <2> QED BY <2>3
<1>8. L \in T
  <2> HIDE DEF T
  <2> QED BY <1>1, <1>6, <1>7, NatSetInduction
<1>9. PICK g : \A k \in 0 .. L : g[k] = Grown(g, k)
  <2>1. PICK g : \A k \in 0 .. L : k <= L => g[k] = Grown(g, k)
    BY <1>8
  <2> QED BY <1>1, <2>1
<1> DEFINE h == [k \in 0 .. L |-> g[k]]
<1>10. h = [k \in 0 .. L |-> Grown(h, k)]
  <2>1. \A k \in 0 .. L : h[k] = g[k]
    OBVIOUS
  <2>2. h = [k \in 0 .. L |-> h[k]]
    OBVIOUS
  <2> HIDE DEF h
  <2>3. ASSUME NEW k \in 0 .. L PROVE h[k] = Grown(h, k)
    <3>1. CASE k = 0
      BY <1>3, <1>9, <2>1, <3>1
    <3>2. CASE k # 0
      <4>1. k - 1 \in 0 .. L /\ k \in 1 .. L
        BY <1>1, <3>2
      <4> QED BY <1>2, <1>9, <2>1, <4>1
    <3> QED BY <3>1, <3>2
  <2> QED BY <2>2, <2>3
<1>11. f = [k \in 0 .. L |-> Grown(f, k)]
  <2> HIDE DEF h
  <2>1. \E x : x = [k \in 0 .. L |-> Grown(x, k)]
    BY <1>10
  <2> QED BY <2>1, Zenon
<1> HIDE DEF f
<1>12. \A k \in 0 .. L : f[k] = Grown(f, k)
  BY <1>11
<1>13. \A k \in 1 .. L : k \in 0 .. L
  BY <1>1
<1>14. f[0] = <<>>
  BY <1>1, <1>5, <1>12
<1>15. ASSUME NEW k \in 1 .. L
       PROVE  f[k] = IF Completed(turns[k]) /\ turns[k].number > n
                     THEN Append(f[k - 1], turns[k]) ELSE f[k - 1]
  <2>1. f[k] = Grown(f, k)
    BY <1>12, <1>13
  <2> QED BY <1>5, <2>1
<1> QED BY <1>4, <1>14, <1>15 DEF L

\* Turns picked out of the turns, in order: those a list may hold.
Picked(list, n, m) ==
  /\ list \in Seq(Turn)
  /\ \A j \in 1 .. Len(list) :
       /\ Completed(list[j]) /\ list[j].number \in n + 1 .. m
       /\ list[j] = turns[list[j].number]
  /\ \A j, k \in 1 .. Len(list) : j < k => list[j].number < list[k].number

\* And all of them: the completed turns after n and up to m.
Lists(list, n, m) ==
  /\ Picked(list, n, m)
  /\ \A i \in n + 1 .. m : Completed(turns[i]) => \E j \in 1 .. Len(list) : list[j] = turns[i]

\* SELECT ... WHERE status = completed AND sequence_number > n.
LEMMA Selected ==
  ASSUME Types, TurnsNumbered, NEW n \in Nat
  PROVE  Lists(CompletedAfter(n), n, Len(turns))
<1> DEFINE L == Len(turns)
           f == CompletedUpTo(n)
           T == {k \in Nat : k <= L => Lists(f[k], n, k)}
<1>1. turns \in Seq(Turn) /\ L \in Nat /\ DOMAIN turns = 1 .. L
  BY DEF Types
<1>2. \A k \in 1 .. L : turns[k] \in Turn /\ turns[k].number = k
  BY <1>1 DEF TurnsNumbered
<1>3. /\ f[0] = <<>>
      /\ \A k \in 1 .. L : f[k] = IF Completed(turns[k]) /\ turns[k].number > n
                                  THEN Append(f[k - 1], turns[k]) ELSE f[k - 1]
  BY <1>1, CompletedUpToEquation
<1> HIDE DEF f, L
<1>4. 0 \in T
  <2>1. Lists(<<>>, n, 0)
    BY DEF Lists, Picked
  <2> QED BY <1>3, <2>1
<1>5. ASSUME NEW m \in Nat, m \in T PROVE m + 1 \in T
  <2> SUFFICES ASSUME m + 1 <= L PROVE Lists(f[m + 1], n, m + 1)
    OBVIOUS
  <2> DEFINE k == m + 1
             s == f[m]
             t == turns[k]
  <2>1. k \in 1 .. L /\ k - 1 = m /\ m <= L
    BY <1>1
  <2>2. Lists(s, n, m)
    BY <1>5, <2>1
  <2>3. t \in Turn /\ t.number = k
    BY <1>2, <2>1
  <2>4. f[k] = IF Completed(t) /\ k > n THEN Append(s, t) ELSE s
    BY <1>3, <2>1, <2>3
  <2> HIDE DEF s, t
  <2>5. CASE Completed(t) /\ k > n
    <3> DEFINE u == Append(s, t)
    <3>1. /\ s \in Seq(Turn) /\ Len(s) \in Nat /\ u \in Seq(Turn) /\ Len(u) = Len(s) + 1
          /\ u[Len(s) + 1] = t /\ \A j \in 1 .. Len(s) : u[j] = s[j]
      BY <2>2, <2>3 DEF Lists, Picked
    <3> HIDE DEF u
    <3>2. ASSUME NEW j \in 1 .. Len(u)
          PROVE  /\ Completed(u[j]) /\ u[j].number \in n + 1 .. k /\ u[j] = turns[u[j].number]
      <4>1. CASE j = Len(s) + 1
        BY <2>3, <2>5, <3>1, <4>1 DEF t
      <4>2. CASE j # Len(s) + 1
        <5>1. j \in 1 .. Len(s) /\ u[j] = s[j]
          BY <3>1, <4>2
        <5>2. Completed(s[j]) /\ s[j].number \in n + 1 .. m /\ s[j] = turns[s[j].number]
          BY <2>2, <5>1 DEF Lists, Picked
        <5> QED BY <5>1, <5>2
      <4> QED BY <4>1, <4>2
    <3>3. ASSUME NEW i \in 1 .. Len(u), NEW j \in 1 .. Len(u), i < j
          PROVE  u[i].number < u[j].number
      <4>1. i \in 1 .. Len(s) /\ u[i] = s[i] /\ s[i].number \in n + 1 .. m
        BY <2>2, <3>1, <3>3 DEF Lists, Picked
      <4>2. CASE j = Len(s) + 1
        BY <2>3, <3>1, <4>1, <4>2
      <4>3. CASE j # Len(s) + 1
        <5>1. j \in 1 .. Len(s) /\ u[j] = s[j]
          BY <3>1, <4>3
        <5> QED BY <2>2, <3>3, <4>1, <5>1 DEF Lists, Picked
      <4> QED BY <4>2, <4>3
    <3>4. ASSUME NEW i \in n + 1 .. k, Completed(turns[i])
          PROVE  \E j \in 1 .. Len(u) : u[j] = turns[i]
      <4>1. CASE i = k
        <5>1. Len(s) + 1 \in 1 .. Len(u) /\ u[Len(s) + 1] = turns[i]
          BY <3>1, <4>1 DEF t
        <5> QED BY <5>1
      <4>2. CASE i # k
        <5>1. i \in n + 1 .. m
          BY <4>2
        <5>2. PICK j \in 1 .. Len(s) : s[j] = turns[i]
          BY <2>2, <3>4, <5>1 DEF Lists
        <5>3. j \in 1 .. Len(u) /\ u[j] = turns[i]
          BY <3>1, <5>2
        <5> QED BY <5>3
      <4> QED BY <4>1, <4>2
    <3>5. Lists(u, n, k)
      BY <3>1, <3>2, <3>3, <3>4 DEF Lists, Picked
    <3> QED BY <2>4, <2>5, <3>5 DEF u
  <2>6. CASE ~(Completed(t) /\ k > n)
    <3>1. \A x \in n + 1 .. m : x \in n + 1 .. k
      OBVIOUS
    <3>2. \A i \in n + 1 .. k : Completed(turns[i]) => i \in n + 1 .. m
      BY <2>6 DEF t
    <3>3. Lists(s, n, k)
      BY <2>2, <3>1, <3>2 DEF Lists, Picked
    <3> QED BY <2>4, <2>6, <3>3
  <2> QED BY <2>5, <2>6
<1>6. L \in T
  <2> HIDE DEF T
  <2> QED BY <1>1, <1>4, <1>5, NatSetInduction
<1> QED BY <1>1, <1>6 DEF CompletedAfter, f, L

--------------------------------------------------------------------------------
(* What turns cost. *)

\* What is left of a set of indices without the one the fold takes first.
LEMMA OneLess ==
  ASSUME NEW D, IsFiniteSet(D), NEW s \in SUBSET D
  PROVE  /\ Cardinality(s) \in Nat
         /\ s # {} => LET x == CHOOSE y \in s : TRUE IN
                      /\ x \in s /\ s \ {x} \in SUBSET D
                      /\ Cardinality(s \ {x}) = Cardinality(s) - 1
         /\ Cardinality(s) <= 0 => s = {}
<1>1. IsFiniteSet(s)
  BY FS_Subset
<1>2. Cardinality(s) \in Nat
  BY <1>1, FS_CardinalityType
<1>3. ASSUME s # {}, NEW x, x = CHOOSE y \in s : TRUE
      PROVE  /\ x \in s /\ s \ {x} \in SUBSET D
             /\ Cardinality(s \ {x}) = Cardinality(s) - 1
  <2>1. x \in s
    BY <1>3
  <2> QED BY <1>1, <2>1, FS_RemoveElement
<1>4. Cardinality(s) = 0 => s = {}
  BY <1>1, FS_EmptySet
<1>5. Cardinality(s) <= 0 => s = {}
  BY <1>2, <1>4
<1> QED BY <1>2, <1>3, <1>5, Zenon

\* The fold of Cost, one turn after the other, and what it adds up to.
LEMMA CostOfTurns ==
  ASSUME NEW ts \in Seq(Turn)
  PROVE  Cost(ts) \in Nat /\ (ts = <<>> => Cost(ts) = 0)
<1> DEFINE D == DOMAIN ts
           First(s) == CHOOSE y \in s : TRUE
           Grown(g, s) == IF s = {} THEN 0 ELSE ts[First(s)].cost + g[s \ {First(s)}]
           f == CHOOSE g : g = [s \in SUBSET D |-> Grown(g, s)]
           T == {m \in Nat : \E g : \A s \in SUBSET D : Cardinality(s) <= m => g[s] = Grown(g, s)}
           U == {m \in Nat : \A s \in SUBSET D : Cardinality(s) <= m => f[s] \in Nat}
<1>1. Cost(ts) = f[D]
  BY DEF Cost, FoldFunction, FoldFunctionOnSet, MapThenFoldSet
<1>2. D = 1 .. Len(ts) /\ Len(ts) \in Nat /\ \A x \in D : ts[x].cost \in Nat
  <2>1. D = 1 .. Len(ts) /\ Len(ts) \in Nat /\ \A x \in D : ts[x] \in Turn
    OBVIOUS
  <2>2. \A t \in Turn : t.cost \in Nat
    BY BudgetAssumption DEF Turn
  <2> QED BY <2>1, <2>2
<1>3. IsFiniteSet(D)
  BY <1>2, FS_Interval
<1>4. \A s \in SUBSET D :
        /\ Cardinality(s) \in Nat /\ (Cardinality(s) <= 0 => s = {})
        /\ s # {} => /\ First(s) \in s /\ s \ {First(s)} \in SUBSET D
                     /\ Cardinality(s \ {First(s)}) = Cardinality(s) - 1
  BY <1>3, OneLess
<1>5. \A g : Grown(g, {}) = 0
  OBVIOUS
<1>6. \A g, s : s # {} => Grown(g, s) = ts[First(s)].cost + g[s \ {First(s)}]
  OBVIOUS
<1> HIDE DEF D, First, Grown
<1>7. ASSUME NEW g, NEW h, NEW s \in SUBSET D,
             s # {} => g[s \ {First(s)}] = h[s \ {First(s)}]
      PROVE  Grown(g, s) = Grown(h, s)
  BY <1>5, <1>6, <1>7
<1>8. 0 \in T
  <2> DEFINE g == [s \in SUBSET D |-> 0]
  <2>1. g[{}] = 0
    OBVIOUS
  <2> HIDE DEF g
  <2>2. \A s \in SUBSET D : Cardinality(s) <= 0 => g[s] = Grown(g, s)
    BY <1>4, <1>5, <2>1
  <2> QED BY <2>2
<1>9. ASSUME NEW m \in Nat, m \in T PROVE m + 1 \in T
  <2>1. PICK g : \A s \in SUBSET D : Cardinality(s) <= m => g[s] = Grown(g, s)
    BY <1>9
  <2> DEFINE h == [s \in SUBSET D |-> Grown(g, s)]
  <2>2. \A s \in SUBSET D : h[s] = Grown(g, s)
    OBVIOUS
  <2> HIDE DEF h
  <2>3. ASSUME NEW s \in SUBSET D, Cardinality(s) <= m + 1 PROVE h[s] = Grown(h, s)
    <3>1. ASSUME s # {} PROVE g[s \ {First(s)}] = h[s \ {First(s)}]
      <4>1. /\ s \ {First(s)} \in SUBSET D /\ Cardinality(s) \in Nat
            /\ Cardinality(s \ {First(s)}) = Cardinality(s) - 1
        BY <1>4, <3>1
      <4>2. Cardinality(s \ {First(s)}) <= m
        BY <2>3, <4>1
      <4> QED BY <2>1, <2>2, <4>1, <4>2
    <3>2. Grown(g, s) = Grown(h, s)
      BY <1>7, <3>1
    <3> QED BY <2>2, <3>2
  <2> QED BY <2>3
<1>10. Cardinality(D) \in Nat
  BY <1>4
<1>11. Cardinality(D) \in T /\ \A s \in SUBSET D : Cardinality(s) <= Cardinality(D)
  <2>1. Cardinality(D) \in T
    <3> HIDE DEF T
    <3> QED BY <1>8, <1>9, <1>10, NatSetInduction
  <2>2. \A s \in SUBSET D : Cardinality(s) <= Cardinality(D)
    BY <1>3, FS_Subset
  <2> QED BY <2>1, <2>2
<1>12. PICK g : \A s \in SUBSET D : g[s] = Grown(g, s)
  BY <1>11
<1>13. f = [s \in SUBSET D |-> Grown(f, s)]
  <2> DEFINE h == [s \in SUBSET D |-> g[s]]
  <2>1. (\A s \in SUBSET D : h[s] = g[s]) /\ h = [s \in SUBSET D |-> h[s]]
    OBVIOUS
  <2> HIDE DEF h
  <2>2. ASSUME NEW s \in SUBSET D PROVE h[s] = Grown(h, s)
    <3>1. s # {} => g[s \ {First(s)}] = h[s \ {First(s)}]
      BY <1>4, <2>1
    <3>2. Grown(g, s) = Grown(h, s)
      BY <1>7, <3>1
    <3> QED BY <1>12, <2>1, <3>2
  <2>3. \E x : x = [s \in SUBSET D |-> Grown(x, s)]
    BY <2>1, <2>2
  <2> QED BY <2>3, Zenon
<1> HIDE DEF f
<1>14. \A s \in SUBSET D : f[s] = Grown(f, s)
  BY <1>13
<1>15. f[{}] = 0
  BY <1>5, <1>14
<1>16. 0 \in U
  <2>1. \A s \in SUBSET D : Cardinality(s) <= 0 => s = {}
    BY <1>4
  <2>2. ASSUME NEW s \in SUBSET D, Cardinality(s) <= 0 PROVE f[s] \in Nat
    <3>1. s = {}
      BY <2>1, <2>2
    <3> QED BY <1>15, <3>1
  <2> QED BY <2>2
<1>17. ASSUME NEW m \in Nat, m \in U PROVE m + 1 \in U
  <2> SUFFICES ASSUME NEW s \in SUBSET D, Cardinality(s) <= m + 1 PROVE f[s] \in Nat
    OBVIOUS
  <2>1. CASE s = {}
    BY <1>15, <2>1
  <2>2. CASE s # {}
    <3>1. /\ First(s) \in D /\ s \ {First(s)} \in SUBSET D /\ Cardinality(s) \in Nat
          /\ Cardinality(s \ {First(s)}) = Cardinality(s) - 1
      BY <1>4, <2>2
    <3>2. Cardinality(s \ {First(s)}) <= m
      BY <3>1
    <3>3. ts[First(s)].cost \in Nat /\ f[s \ {First(s)}] \in Nat
      BY <1>2, <1>17, <3>1, <3>2
    <3>4. f[s] = ts[First(s)].cost + f[s \ {First(s)}]
      BY <1>6, <1>14, <2>2, Zenon
    <3> QED BY <3>3, <3>4
  <2> QED BY <2>1, <2>2
<1>18. f[D] \in Nat
  <2>1. Cardinality(D) \in U
    <3> HIDE DEF U
    <3> QED BY <1>10, <1>16, <1>17, NatSetInduction
  <2> QED BY <1>10, <2>1
<1>19. ASSUME ts = <<>> PROVE f[D] = 0
  <2>1. D = {}
    BY <1>19 DEF D
  <2> QED BY <1>15, <2>1
<1> QED BY <1>1, <1>18, <1>19

--------------------------------------------------------------------------------
(* The history and the summary. *)

\* The dialogue of the completed turns after n and up to m.
Dialogues(n, m) == UNION {Pieces(turns[i]) : i \in {j \in n + 1 .. m : Completed(turns[j])}}

\* The last turn that is being summarized.
LastEvicted(r) == evicted[r][Len(evicted[r])].number

\* The stored summary is made of the completed turns it says it covers.
RowsInv ==
  /\ conversation.through \in 0 .. Len(turns)
  /\ conversation.summary = Dialogues(0, conversation.through)

\* While it is summarized, the dialogue is in the summary in the making or still in
\* the transcript, and what is kept verbatim begins after it.
Summarizing(r) ==
  /\ evicted[r] # <<>>
  /\ LastEvicted(r) \in conversation.through + 1 .. Len(turns)
  /\ Lists(recent[r], LastEvicted(r), Len(turns))
  /\ conversation.summary \subseteq summary[r]
  /\ summary[r] \cup Range(transcript[r]) = Dialogues(0, LastEvicted(r))
  /\ Cost(recent[r]) <= Budget - Reserved

\* A history ready to be sent.
Ready(r) ==
  /\ Lists(recent[r], conversation.through, Len(turns))
  /\ summary[r] = conversation.summary
  /\ Cost(recent[r]) + (IF summary[r] = {} THEN 0 ELSE Reserved) <= Budget

\* How far a request has come with its history.  The turn it runs is one that the
\* stored summary does not cover.
Progress(r) ==
  /\ pc[r] = "select" => seen[r] = conversation
  /\ pc[r] \in {"summarize", "checkpoint"} => Summarizing(r)
  /\ pc[r] = "checkpoint" => transcript[r] = <<>>
  /\ pc[r] \in {"number", "create"} => Ready(r)
  /\ pc[r] = "run" => conversation.through <= number[r]

HInv == TypeOK /\ RowsInv /\ \A r \in Requests : Progress(r)

\* A list cut in two: what is kept verbatim begins after the last turn that is not.
LEMMA CutList ==
  ASSUME Types, TurnsNumbered, NEW n \in Nat, NEW p \in 0 .. Len(turns),
         NEW ts, Lists(ts, n, p), NEW k \in 2 .. Len(ts) + 1
  PROVE  LET m == ts[k - 1].number
             out == SubSeq(ts, 1, k - 1)
             rest == SubSeq(ts, k, Len(ts))
         IN  /\ m \in n + 1 .. p
             /\ out # <<>> /\ Len(out) = k - 1 /\ out[k - 1].number = m
             /\ Lists(out, n, m) /\ Lists(rest, m, p)
<1> DEFINE m == ts[k - 1].number
           out == SubSeq(ts, 1, k - 1)
           rest == SubSeq(ts, k, Len(ts))
           L == Len(ts)
<1>0. Len(turns) \in Nat /\ \A i \in n + 1 .. p : turns[i].number = i
  BY DEF Types, TurnsNumbered
<1>1. /\ ts \in Seq(Turn) /\ L \in Nat
      /\ \A j \in 1 .. L : /\ Completed(ts[j]) /\ ts[j].number \in n + 1 .. p
                           /\ ts[j] = turns[ts[j].number]
      /\ \A i, j \in 1 .. L : i < j => ts[i].number < ts[j].number
      /\ \A i \in n + 1 .. p : Completed(turns[i]) => \E j \in 1 .. L : ts[j] = turns[i]
  BY DEF Lists, Picked
<1>2. k - 1 \in 1 .. L /\ k \in Nat /\ m \in n + 1 .. p /\ p \in Nat
  BY <1>0, <1>1
<1>3. /\ out \in Seq(Turn) /\ Len(out) = k - 1
      /\ \A j \in 1 .. k - 1 : out[j] = ts[j]
  BY <1>1, <1>2
<1>4. /\ rest \in Seq(Turn) /\ Len(rest) = L - (k - 1)
      /\ \A j \in 1 .. L - (k - 1) : rest[j] = ts[j + (k - 1)]
  <2>1. \A j \in k .. L : ts[j] \in Turn
    BY <1>1, <1>2
  <2>2. rest \in Seq(Turn) /\ Len(rest) = IF k <= L THEN L - k + 1 ELSE 0
    BY <1>1, <1>2, <2>1, SubSeqProperties
  <2>3. \A j \in 1 .. L - k + 1 : rest[j] = ts[k + j - 1]
    BY <1>1, <1>2, SubSeqProperties
  <2> QED BY <1>1, <1>2, <2>2, <2>3
<1> HIDE DEF out, rest, L
<1>5. Lists(out, n, m)
  <2>1. \A j \in 1 .. k - 1 : j \in 1 .. L /\ ts[j].number <= m
    <3> SUFFICES ASSUME NEW j \in 1 .. k - 1 PROVE j \in 1 .. L /\ ts[j].number <= m
      OBVIOUS
    <3>1. j \in 1 .. L
      BY <1>1, <1>2
    <3>2. CASE j = k - 1 BY <1>2, <3>1, <3>2
    <3>3. CASE j # k - 1
      <4>1. j < k - 1 BY <3>3
      <4>2. ts[j].number < ts[k - 1].number
        BY <1>1, <1>2, <3>1, <4>1
      <4> QED BY <1>1, <1>2, <3>1, <4>2
    <3> QED BY <3>2, <3>3
  <2>2. ASSUME NEW j \in 1 .. Len(out)
        PROVE  /\ Completed(out[j]) /\ out[j].number \in n + 1 .. m
               /\ out[j] = turns[out[j].number]
    <3>1. out[j] = ts[j] /\ j \in 1 .. L /\ ts[j].number <= m
      BY <1>3, <2>1
    <3>2. Completed(ts[j]) /\ ts[j].number \in n + 1 .. p /\ ts[j] = turns[ts[j].number]
      BY <1>1, <3>1
    <3> QED BY <1>2, <3>1, <3>2
  <2>3. ASSUME NEW i \in 1 .. Len(out), NEW j \in 1 .. Len(out), i < j
        PROVE  out[i].number < out[j].number
    BY <1>1, <1>3, <2>1, <2>3
  <2>4. ASSUME NEW i \in n + 1 .. m, Completed(turns[i])
        PROVE  \E j \in 1 .. Len(out) : out[j] = turns[i]
    <3>1. i \in n + 1 .. p
      BY <1>2
    <3>2. PICK j \in 1 .. L : ts[j] = turns[i]
      BY <1>1, <2>4, <3>1
    <3>3. ts[j].number = i
      BY <1>0, <3>1, <3>2
    <3>4. j <= k - 1
      <4> SUFFICES ASSUME j > k - 1 PROVE FALSE
        BY <1>1, <1>2
      <4>1. ts[k - 1].number < ts[j].number
        BY <1>1, <1>2
      <4> QED BY <1>2, <3>3, <4>1
    <3> QED BY <1>3, <3>2, <3>4
  <2> QED BY <1>3, <2>2, <2>3, <2>4 DEF Lists, Picked
<1>6. Lists(rest, m, p)
  <2>1. ASSUME NEW j \in 1 .. Len(rest)
        PROVE  j + (k - 1) \in k .. L /\ j + (k - 1) \in 1 .. L
    <3>1. L \in Nat /\ k - 1 \in 1 .. L /\ k \in Nat /\ Len(rest) = L - (k - 1)
      BY <1>1, <1>2, <1>4
    <3>2. j \in Nat /\ j >= 1 /\ j <= L - (k - 1)
      BY <3>1
    <3> QED BY <3>1, <3>2
  <2>2. ASSUME NEW j \in 1 .. Len(rest)
        PROVE  /\ Completed(rest[j]) /\ rest[j].number \in m + 1 .. p
               /\ rest[j] = turns[rest[j].number]
    <3> DEFINE i == j + (k - 1)
    <3>1. rest[j] = ts[i] /\ i \in 1 .. L /\ k - 1 < i
      BY <1>2, <1>4, <2>1
    <3> HIDE DEF i
    <3>2. Completed(ts[i]) /\ ts[i].number \in n + 1 .. p /\ ts[i] = turns[ts[i].number]
      BY <1>1, <3>1
    <3>3. m < ts[i].number
      BY <1>1, <1>2, <3>1
    <3> QED BY <1>2, <3>1, <3>2, <3>3, SMTT(30)
  <2>3. ASSUME NEW i \in 1 .. Len(rest), NEW j \in 1 .. Len(rest), i < j
        PROVE  rest[i].number < rest[j].number
    <3>1. /\ rest[i] = ts[i + (k - 1)] /\ rest[j] = ts[j + (k - 1)]
          /\ i + (k - 1) \in 1 .. L /\ j + (k - 1) \in 1 .. L /\ i + (k - 1) < j + (k - 1)
      BY <1>2, <1>4, <2>1, <2>3
    <3> QED BY <1>1, <3>1
  <2>4. ASSUME NEW i \in m + 1 .. p, Completed(turns[i])
        PROVE  \E j \in 1 .. Len(rest) : rest[j] = turns[i]
    <3>1. i \in n + 1 .. p
      BY <1>2
    <3>2. PICK j \in 1 .. L : ts[j] = turns[i]
      BY <1>1, <2>4, <3>1
    <3>3. ts[j].number = i
      BY <1>0, <3>1, <3>2
    <3>4. j > k - 1
      <4> SUFFICES ASSUME j <= k - 1 PROVE FALSE
        BY <1>1, <1>2
      <4>1. CASE j = k - 1 BY <1>2, <3>3, <4>1
      <4>2. CASE j # k - 1
        <5>1. j < k - 1 BY <1>2, <4>2
        <5>2. ts[j].number < ts[k - 1].number
          BY <1>1, <1>2, <5>1
        <5> QED BY <1>2, <3>3, <5>2
      <4> QED BY <4>1, <4>2
    <3>5. j - (k - 1) \in 1 .. Len(rest) /\ (j - (k - 1)) + (k - 1) = j
      BY <1>1, <1>2, <1>4, <3>4
    <3>6. rest[j - (k - 1)] = ts[j]
      BY <1>4, <3>5
    <3> QED BY <3>2, <3>5, <3>6
  <2> QED BY <1>4, <2>2, <2>3, <2>4 DEF Lists, Picked
<1>7. out # <<>>
  BY <1>2, <1>3
<1> QED BY <1>2, <1>3, <1>5, <1>6, <1>7 DEF out, rest, L

\* The search for what fits stops, and finds the room for the summary set aside.
LEMMA FirstRetainedFits ==
  ASSUME NEW ts \in Seq(Turn)
  PROVE  /\ FirstRetained(ts) \in 1 .. Len(ts) + 1
         /\ Cost(SubSeq(ts, FirstRetained(ts), Len(ts))) <= Budget - Reserved
<1> DEFINE suffix(k) == SubSeq(ts, k, Len(ts))
           T == {k \in 1 .. Len(ts) + 1 : Cost(suffix(k)) <= Budget - Reserved}
<1>1. Len(ts) \in Nat /\ Budget - Reserved \in Nat
  BY BudgetAssumption
<1>2. \A k \in 1 .. Len(ts) + 1 : Cost(suffix(k)) \in Nat
  <2> SUFFICES ASSUME NEW k \in 1 .. Len(ts) + 1 PROVE Cost(suffix(k)) \in Nat
    OBVIOUS
  <2>1. suffix(k) \in Seq(Turn)
    BY <1>1
  <2> HIDE DEF suffix
  <2> QED BY <2>1, CostOfTurns
<1>3. Len(ts) + 1 \in T
  <2>1. suffix(Len(ts) + 1) = <<>>
    BY <1>1
  <2>2. Cost(<<>>) = 0
    <3>1. <<>> \in Seq(Turn)
      OBVIOUS
    <3> QED BY <3>1, CostOfTurns
  <2> HIDE DEF suffix
  <2> QED BY <1>1, <2>1, <2>2
<1> HIDE DEF suffix
<1>4. PICK k \in T : \A j \in T : k <= j
  <2>1. T \subseteq Nat /\ T # {}
    BY <1>1, <1>3
  <2> HIDE DEF T
  <2> QED BY <2>1, NatMin
<1>5. k > 1 => Cost(suffix(k - 1)) > Budget - Reserved
  <2> SUFFICES ASSUME k > 1 PROVE Cost(suffix(k - 1)) > Budget - Reserved
    OBVIOUS
  <2>1. k - 1 \in 1 .. Len(ts) + 1 /\ ~(k <= k - 1)
    BY <1>1
  <2>2. k - 1 \notin T
    BY <1>4, <2>1
  <2> QED BY <1>1, <1>2, <2>1, <2>2
<1>6. \E x \in 1 .. Len(ts) + 1 : /\ Cost(suffix(x)) <= Budget - Reserved
                                  /\ x > 1 => Cost(suffix(x - 1)) > Budget - Reserved
  BY <1>5
<1>7. FirstRetained(ts) =
        CHOOSE x \in 1 .. Len(ts) + 1 : /\ Cost(suffix(x)) <= Budget - Reserved
                                        /\ x > 1 => Cost(suffix(x - 1)) > Budget - Reserved
  BY DEF FirstRetained, suffix
<1>8. FirstRetained(ts) \in 1 .. Len(ts) + 1 /\ Cost(suffix(FirstRetained(ts))) <= Budget - Reserved
  BY <1>6, <1>7, Zenon
<1> QED BY <1>8 DEF suffix

\* Where a piece of dialogue comes from: division gives the turn, the remainder the part.
LEMMA PieceIndex ==
  ASSUME NEW P \in Nat \ {0}
  PROVE  /\ \A a \in Nat, b \in 0 .. P - 1 : (a * P + b) \div P = a /\ (a * P + b) % P = b
         /\ \A x \in Nat : x \div P \in Nat /\ x % P \in 0 .. P - 1
         /\ \A x, n \in Nat : x < n * P => x \div P < n
         /\ \A a, n \in Nat, b \in 0 .. P - 1 : a < n => a * P + b < n * P
<1>1. \A x \in Nat : /\ x \div P \in Nat /\ x % P \in 0 .. P - 1
                     /\ x = (x \div P) * P + (x % P)
  OBVIOUS
<1>2. \A a, n \in Nat, b \in 0 .. P - 1 : a < n => a * P + b < n * P
  <2> SUFFICES ASSUME NEW a \in Nat, NEW n \in Nat, NEW b \in 0 .. P - 1, a < n
               PROVE  a * P + b < n * P
    OBVIOUS
  <2>1. n * P = a * P + (n - a) * P /\ (n - a) * P >= P
    OBVIOUS
  <2> QED BY <2>1
<1>3. \A x, n \in Nat : x < n * P => x \div P < n
  <2> SUFFICES ASSUME NEW x \in Nat, NEW n \in Nat, x < n * P, x \div P >= n PROVE FALSE
    BY <1>1
  <2>1. (x \div P) * P >= n * P
    BY <1>1
  <2> QED BY <1>1, <2>1
<1>4. \A a \in Nat, b \in 0 .. P - 1 : (a * P + b) \div P = a /\ (a * P + b) % P = b
  OBVIOUS
<1> QED BY <1>1, <1>2, <1>3, <1>4

\* The dialogue of a list is the dialogue of the turns it lists, in pieces.
LEMMA DialogueOf ==
  ASSUME Types, TurnsNumbered, NEW n \in Nat, NEW m \in 0 .. Len(turns), NEW ts, Lists(ts, n, m)
  PROVE  /\ Dialogue(ts) \in Seq(Nat \X (1 .. Parts))
         /\ Range(Dialogue(ts)) = Dialogues(n, m)
<1> DEFINE L == Len(ts)
           d == Dialogue(ts)
<1>1. /\ L \in Nat /\ ts \in Seq(Turn) /\ Parts \in Nat \ {0}
      /\ Len(turns) \in Nat /\ \A i \in n + 1 .. m : turns[i].number = i
      /\ \A j \in 1 .. L : /\ Completed(ts[j]) /\ ts[j].number \in n + 1 .. m
                           /\ ts[j] = turns[ts[j].number]
      /\ \A i \in n + 1 .. m : Completed(turns[i]) => \E j \in 1 .. L : ts[j] = turns[i]
  BY BudgetAssumption DEF Lists, Picked, Types, TurnsNumbered
<1>2. /\ L * Parts \in Nat
      /\ d = [i \in 1 .. L * Parts |->
                <<ts[((i - 1) \div Parts) + 1].number, ((i - 1) % Parts) + 1>>]
  BY <1>1 DEF Dialogue
<1>3. ASSUME NEW i \in 1 .. L * Parts
      PROVE  ((i - 1) \div Parts) + 1 \in 1 .. L /\ ((i - 1) % Parts) + 1 \in 1 .. Parts
  <2>1. i - 1 \in Nat /\ i - 1 < L * Parts
    BY <1>2
  <2>2. (i - 1) \div Parts \in Nat /\ (i - 1) % Parts \in 0 .. Parts - 1 /\ (i - 1) \div Parts < L
    BY <1>1, <2>1, PieceIndex
  <2> QED BY <1>1, <2>2
<1>4. \A i \in 1 .. L * Parts :
        d[i] = <<ts[((i - 1) \div Parts) + 1].number, ((i - 1) % Parts) + 1>>
  BY <1>2
<1>5. d \in Seq(Nat \X (1 .. Parts)) /\ DOMAIN d = 1 .. L * Parts
  <2>1. ASSUME NEW i \in 1 .. L * Parts PROVE d[i] \in Nat \X (1 .. Parts)
    <3> DEFINE j == ((i - 1) \div Parts) + 1
               q == ((i - 1) % Parts) + 1
    <3>1. j \in 1 .. L /\ q \in 1 .. Parts /\ d[i] = <<ts[j].number, q>>
      BY <1>3, <1>4
    <3> HIDE DEF j, q
    <3>2. ts[j].number \in Nat
      BY <1>1, <3>1
    <3> QED BY <3>1, <3>2
  <2>2. d = [i \in 1 .. L * Parts |-> d[i]]
    BY <1>2
  <2> HIDE DEF d
  <2>3. d \in [1 .. L * Parts -> Nat \X (1 .. Parts)]
    BY <2>1, <2>2
  <2> DEFINE N == L * Parts
             S == Nat \X (1 .. Parts)
  <2>4. N \in Nat /\ d \in [1 .. N -> S]
    BY <1>2, <2>3
  <2> HIDE DEF N, S
  <2>5. d \in Seq(S) /\ DOMAIN d = 1 .. N
    BY <2>4
  <2> QED BY <2>5 DEF N, S
<1> HIDE DEF d, L
<1>6. ASSUME NEW i \in DOMAIN d PROVE d[i] \in Dialogues(n, m)
  <2> DEFINE j == ((i - 1) \div Parts) + 1
             p == ((i - 1) % Parts) + 1
  <2>1. j \in 1 .. L /\ p \in 1 .. Parts /\ d[i] = <<ts[j].number, p>>
    BY <1>3, <1>4, <1>5
  <2> HIDE DEF j, p
  <2>2. d[i] \in Pieces(ts[j])
    BY <2>1 DEF Pieces
  <2>3. Completed(ts[j]) /\ ts[j].number \in n + 1 .. m /\ ts[j] = turns[ts[j].number]
    BY <1>1, <2>1
  <2> QED BY <2>2, <2>3 DEF Dialogues
<1>7. ASSUME NEW x \in Dialogues(n, m) PROVE \E i \in DOMAIN d : d[i] = x
  <2>1. PICK k \in n + 1 .. m : Completed(turns[k]) /\ x \in Pieces(turns[k])
    BY <1>7 DEF Dialogues
  <2>2. PICK p \in 1 .. Parts : x = <<k, p>>
    BY <1>1, <2>1 DEF Pieces
  <2>3. PICK j \in 1 .. L : ts[j] = turns[k]
    BY <1>1, <2>1
  <2> DEFINE i == (j - 1) * Parts + (p - 1)
  <2>4. j - 1 \in Nat /\ p - 1 \in 0 .. Parts - 1 /\ j - 1 < L
    BY <1>1
  <2>5. i \div Parts = j - 1 /\ i % Parts = p - 1 /\ i < L * Parts /\ i \in Nat
    <3>1. i \in Nat
      BY <1>1, <2>4
    <3>2. i \div Parts = j - 1 /\ i % Parts = p - 1
      BY <1>1, <2>4, PieceIndex, ZenonT(30)
    <3>3. i < L * Parts
      BY <1>1, <2>4, PieceIndex
    <3> QED BY <3>1, <3>2, <3>3
  <2> HIDE DEF i
  <2>6. i + 1 \in 1 .. L * Parts /\ (i + 1) - 1 = i
    BY <1>2, <2>5
  <2>7. d[i + 1] = <<ts[(j - 1) + 1].number, (p - 1) + 1>>
    BY <1>4, <2>5, <2>6
  <2>8. d[i + 1] = x
    BY <1>1, <2>2, <2>3, <2>7
  <2> QED BY <1>5, <2>6, <2>8
<1>8. Range(d) = Dialogues(n, m)
  BY <1>6, <1>7 DEF Range
<1> QED BY <1>5, <1>8 DEF d

\* Dialogue up to a turn and the dialogue after it.
LEMMA DialoguesJoin ==
  ASSUME NEW n \in Nat, NEW m \in Nat, n <= m
  PROVE  Dialogues(0, m) = Dialogues(0, n) \cup Dialogues(n, m)
<1>1. 0 + 1 .. m = (0 + 1 .. n) \cup (n + 1 .. m)
  OBVIOUS
<1> QED BY <1>1 DEF Dialogues

--------------------------------------------------------------------------------
(* The steps. *)

\* A request that has left keeps nothing.
LEMMA ForgetTypes ==
  ASSUME TypeOK, NEW r \in Requests, Forget(r)
  PROVE  /\ seen' \in [Requests -> Row]
         /\ recent' \in [Requests -> Seq(Turn)] /\ evicted' \in [Requests -> Seq(Turn)]
         /\ transcript' \in [Requests -> Seq(Nat \X (1 .. Parts))]
         /\ summary' \in [Requests -> SUBSET (Nat \X (1 .. Parts))]
         /\ number' \in [Requests -> Nat]
<1>1. NoRow \in Row
  BY DEF NoRow, Row
<1>2. <<>> \in Seq(Turn) /\ <<>> \in Seq(Nat \X (1 .. Parts))
  OBVIOUS
<1>3. seen' \in [Requests -> Row]
  BY <1>1, Zenon DEF TypeOK, Forget
<1>4. recent' \in [Requests -> Seq(Turn)] /\ evicted' \in [Requests -> Seq(Turn)]
  BY <1>2, Zenon DEF TypeOK, Forget
<1>5. transcript' \in [Requests -> Seq(Nat \X (1 .. Parts))]
  BY <1>2, Zenon DEF TypeOK, Forget
<1>6. summary' \in [Requests -> SUBSET (Nat \X (1 .. Parts))] /\ number' \in [Requests -> Nat]
  BY DEF TypeOK, Forget
<1> QED BY <1>3, <1>4, <1>5, <1>6

\* Where a request may be, and how often the database may fail.
LEMMA PlaceTypes ==
  ASSUME TypeOK, NEW r \in Requests, Load(r) \/ Step(r) \/ Crash(r)
  PROVE  /\ pc' \in [Requests -> {"idle", "claim"} \cup Claimed \cup Ended \cup Stranded]
         /\ faults' \in 0 .. MaxFaults
<1>1. pc' \in [Requests -> {"idle", "claim"} \cup Claimed \cup Ended \cup Stranded]
  BY DEF TypeOK, Step, Load, Claim, Refresh, Select, Summarize, SummaryFails, Checkpoint, ReadNumber,
         CreateTurn, RunEnds, Release, Crash, Goto, Claimed, Ended, Stranded
<1>2. faults' = faults \/ Fault
  BY Zenon DEF Step, Load, Claim, Refresh, Select, Summarize, SummaryFails, Checkpoint, ReadNumber,
         CreateTurn, RunEnds, Release, Crash
<1>3. faults' \in 0 .. MaxFaults
  BY <1>2, BudgetAssumption DEF TypeOK, Fault
<1> QED BY <1>1, <1>3

\* The flag is the only thing of the row that a claim and a release change.
LEMMA RowTypes ==
  ASSUME conversation \in Row, NEW b \in BOOLEAN, conversation' = [conversation EXCEPT !.running = b]
  PROVE  /\ conversation' \in Row
         /\ conversation'.through = conversation.through
         /\ conversation'.summary = conversation.summary
<1>1. conversation' \in Row
  BY Zenon DEF Row
<1>2. conversation'.through = conversation.through
  BY Zenon DEF Row
<1>3. conversation'.summary = conversation.summary
  BY Zenon DEF Row
<1> QED BY <1>1, <1>2, <1>3

\* What is stored stays true as long as the turns and the checkpoint stay.
LEMMA RowsKept ==
  ASSUME RowsInv, turns' = turns, conversation'.through = conversation.through,
         conversation'.summary = conversation.summary
  PROVE  RowsInv'
  BY DEF RowsInv, Dialogues, Pieces, Completed

\* A request that takes no step keeps all it has, and the rows while it works on them.
LEMMA OthersKeep ==
  ASSUME IInv, TypeOK, NEW r \in Requests, Load(r) \/ Step(r) \/ Crash(r), NEW x \in Requests \ {r}
  PROVE  /\ pc'[x] = pc[x] /\ seen'[x] = seen[x] /\ recent'[x] = recent[x]
         /\ evicted'[x] = evicted[x] /\ transcript'[x] = transcript[x]
         /\ summary'[x] = summary[x] /\ number'[x] = number[x]
         /\ pc[x] \in Claimed => conversation' = conversation /\ turns' = turns
<1> USE DEF TypeOK
<1>1. pc'[x] = pc[x]
  BY DEF Step, Load, Claim, Refresh, Select, Summarize, SummaryFails, Checkpoint, ReadNumber,
         CreateTurn, RunEnds, Release, Crash, Goto
<1>2. seen'[x] = seen[x]
  BY DEF Step, Load, Claim, Refresh, Select, Summarize, SummaryFails, Checkpoint, ReadNumber,
         CreateTurn, RunEnds, Release, Crash, Forget, locals
<1>3. recent'[x] = recent[x] /\ evicted'[x] = evicted[x]
  BY DEF Step, Load, Claim, Refresh, Select, Summarize, SummaryFails, Checkpoint, ReadNumber,
         CreateTurn, RunEnds, Release, Crash, Forget, locals
<1>4. transcript'[x] = transcript[x]
  BY DEF Step, Load, Claim, Refresh, Select, Summarize, SummaryFails, Checkpoint, ReadNumber,
         CreateTurn, RunEnds, Release, Crash, Forget, locals
<1>5. summary'[x] = summary[x]
  BY DEF Step, Load, Claim, Refresh, Select, Summarize, SummaryFails, Checkpoint, ReadNumber,
         CreateTurn, RunEnds, Release, Crash, Forget, locals
<1>6. number'[x] = number[x]
  BY DEF Step, Load, Claim, Refresh, Select, Summarize, SummaryFails, Checkpoint, ReadNumber,
         CreateTurn, RunEnds, Release, Crash, Forget, locals
<1>7. ASSUME pc[x] \in Claimed PROVE conversation' = conversation /\ turns' = turns
  <2>1. pc[r] \notin Claimed /\ conversation.running
    BY <1>7, Zenon DEF IInv, OneTurnAtATime
  <2>2. Load(r) \/ Claim(r)
    BY <2>1 DEF Step, Refresh, Select, Summarize, SummaryFails, Checkpoint, ReadNumber,
         CreateTurn, RunEnds, Release, Crash, Claimed
  <2> QED BY <2>1, <2>2, Zenon DEF Load, Claim, rows
<1> QED BY <1>1, <1>2, <1>3, <1>4, <1>5, <1>6, <1>7

\* So it is as far as it was.
LEMMA StillGoing ==
  ASSUME NEW x \in Requests, Progress(x),
         pc'[x] = pc[x], seen'[x] = seen[x], recent'[x] = recent[x], evicted'[x] = evicted[x],
         transcript'[x] = transcript[x], summary'[x] = summary[x], number'[x] = number[x],
         pc[x] \in Claimed => conversation' = conversation /\ turns' = turns
  PROVE  Progress(x)'
<1>1. CASE pc[x] \in Claimed
  <2>1. conversation' = conversation /\ turns' = turns
    BY <1>1
  <2>2. Lists(recent[x], conversation.through, Len(turns))
        => Lists(recent[x], conversation.through, Len(turns))'
    BY <2>1, SMTT(30) DEF Lists, Picked
  <2>3. LastEvicted(x)' = LastEvicted(x)
    BY DEF LastEvicted
  <2>4. Lists(recent[x], LastEvicted(x), Len(turns)) => Lists(recent[x], LastEvicted(x), Len(turns))'
    BY <2>1, <2>3 DEF Lists, Picked
  <2>5. Dialogues(0, LastEvicted(x))' = Dialogues(0, LastEvicted(x))
    BY <2>1, <2>3 DEF Dialogues
  <2>6. Summarizing(x) => Summarizing(x)'
    BY <2>1, <2>3, <2>4, <2>5 DEF Summarizing
  <2>7. Ready(x) => Ready(x)'
    BY <2>1, <2>2 DEF Ready
  <2> QED BY <2>1, <2>6, <2>7 DEF Progress
<1>2. CASE pc[x] \notin Claimed
  BY <1>2 DEF Progress, Claimed
<1> QED BY <1>1, <1>2

\* A request that is outside, or that gives its claim back, changes no more than the flag.
LEMMA OutsideStep ==
  ASSUME IInv, HInv, NEW r \in Requests,
         Load(r) \/ Claim(r) \/ Refresh(r) \/ SummaryFails(r) \/ Release(r) \/ Crash(r)
  PROVE  TypeOK' /\ RowsInv' /\ Progress(r)'
<1>1. /\ TypeOK /\ RowsInv
      /\ pc' \in [Requests -> {"idle", "claim"} \cup Claimed \cup Ended \cup Stranded]
      /\ faults' \in 0 .. MaxFaults
  BY PlaceTypes DEF HInv, Step
<1>2. turns' = turns
  BY DEF Load, Claim, Refresh, SummaryFails, Release, Crash, rows
<1>3. \/ conversation' = conversation
      \/ \E b \in BOOLEAN : conversation' = [conversation EXCEPT !.running = b]
  BY Zenon DEF Load, Claim, Refresh, SummaryFails, Release, Crash, rows
<1>4. /\ conversation' \in Row
      /\ conversation'.through = conversation.through /\ conversation'.summary = conversation.summary
  BY <1>1, <1>3, RowTypes DEF TypeOK
<1>5. \/ locals' = locals
      \/ Forget(r)
      \/ /\ seen' = [seen EXCEPT ![r] = conversation]
         /\ UNCHANGED <<recent, evicted, transcript, summary, number>>
  BY Zenon DEF Load, Claim, Refresh, SummaryFails, Release, Crash, locals
<1>6. TypeOK'
  <2>1. CASE locals' = locals
    BY <1>1, <1>2, <1>4, <2>1 DEF TypeOK, locals
  <2>2. CASE Forget(r)
    BY <1>1, <1>2, <1>4, <2>2, ForgetTypes DEF TypeOK
  <2>3. CASE /\ seen' = [seen EXCEPT ![r] = conversation]
             /\ UNCHANGED <<recent, evicted, transcript, summary, number>>
    <3>1. seen' \in [Requests -> Row]
      BY <1>1, <2>3, Zenon DEF TypeOK
    <3> QED BY <1>1, <1>2, <1>4, <2>3, <3>1 DEF TypeOK
  <2> QED BY <1>5, <2>1, <2>2, <2>3
<1>7. pc'[r] \notin {"summarize", "checkpoint", "number", "create", "run"}
  BY <1>1 DEF TypeOK, Load, Claim, Refresh, SummaryFails, Release, Crash, Goto
<1>8. ASSUME pc'[r] = "select" PROVE seen'[r] = conversation'
  <2>1. Refresh(r) /\ pc'[r] # "unreleased"
    BY <1>1, <1>8 DEF TypeOK, Load, Claim, Refresh, SummaryFails, Release, Crash, Goto
  <2>2. seen' = [seen EXCEPT ![r] = conversation] /\ conversation' = conversation
    BY <1>1, <2>1 DEF TypeOK, Refresh, Goto, rows
  <2> QED BY <1>1, <2>2 DEF TypeOK
<1> QED BY <1>1, <1>2, <1>4, <1>6, <1>7, <1>8, RowsKept DEF Progress

\* The request takes what its row does not cover, keeps what fits and leaves the rest
\* to the summary.
LEMMA SelectStep ==
  ASSUME IInv, HInv, NEW r \in Requests, Select(r)
  PROVE  TypeOK' /\ RowsInv' /\ Progress(r)'
<1> DEFINE n == conversation.through
           ts == CompletedAfter(n)
           fits == conversation.summary = {} /\ Cost(ts) <= Budget
           first == IF fits THEN 1 ELSE FirstRetained(ts)
           out == SubSeq(ts, 1, first - 1)
           rest == SubSeq(ts, first, Len(ts))
           L == Len(turns)
<1>1. /\ TypeOK /\ RowsInv /\ Types /\ TurnsNumbered
      /\ pc' \in [Requests -> {"idle", "claim"} \cup Claimed \cup Ended \cup Stranded]
      /\ faults' \in 0 .. MaxFaults
  BY PlaceTypes DEF HInv, IInv, Step
<1>2. seen[r] = conversation
  BY DEF HInv, Progress, Select
<1>3. /\ recent' = [recent EXCEPT ![r] = rest] /\ evicted' = [evicted EXCEPT ![r] = out]
      /\ transcript' = [transcript EXCEPT ![r] = Dialogue(out)]
      /\ summary' = [summary EXCEPT ![r] = conversation.summary]
      /\ pc' = [pc EXCEPT ![r] = IF out = <<>> THEN "number" ELSE "summarize"]
      /\ conversation' = conversation /\ turns' = turns /\ seen' = seen /\ number' = number
  BY <1>2 DEF Select, Previous, Goto, rows
<1>4. n \in Nat /\ n \in 0 .. L /\ L \in Nat /\ turns \in Seq(Turn)
  BY <1>1 DEF RowsInv, TypeOK
<1>5. Lists(ts, n, L) /\ ts \in Seq(Turn) /\ Len(ts) \in Nat
  <2>1. Lists(ts, n, L)
    BY <1>1, <1>4, Selected
  <2> HIDE DEF ts
  <2> QED BY <2>1 DEF Lists, Picked
<1> HIDE DEF n, ts, L
<1>6. /\ first \in 1 .. Len(ts) + 1
      /\ Cost(rest) + (IF conversation.summary = {} THEN 0 ELSE Reserved) <= Budget
      /\ first > 1 => Cost(rest) <= Budget - Reserved
  <2>1. CASE fits
    <3>1. rest = ts /\ first = 1
      BY <1>5, <2>1
    <3> HIDE DEF rest, first
    <3>2. Cost(rest) \in Nat
      BY <1>5, <3>1, CostOfTurns
    <3> QED BY <1>5, <2>1, <3>1, <3>2, BudgetAssumption
  <2>2. CASE ~fits
    <3>1. first \in 1 .. Len(ts) + 1 /\ Cost(rest) <= Budget - Reserved
      BY <1>5, <2>2, FirstRetainedFits
    <3>2. Cost(rest) \in Nat
      <4>1. rest \in Seq(Turn)
        BY <1>5, <3>1
      <4> HIDE DEF rest
      <4> QED BY <4>1, CostOfTurns
    <3> HIDE DEF rest, first
    <3> QED BY <3>1, <3>2, BudgetAssumption
  <2> QED BY <2>1, <2>2
<1>7. out \in Seq(Turn) /\ rest \in Seq(Turn) /\ Len(out) = first - 1
  BY <1>5, <1>6
<1> HIDE DEF first
<1>8. ASSUME out = <<>> PROVE Progress(r)' /\ Dialogue(out) \in Seq(Nat \X (1 .. Parts))
  <2>1. first = 1 /\ rest = ts
    <3>1. first = 1
      BY <1>6, <1>7, <1>8
    <3> QED BY <1>5, <3>1
  <2>2. Dialogue(out) \in Seq(Nat \X (1 .. Parts))
    <3> HIDE DEF out, rest
    <3>1. Lists(out, n, n)
      <4>1. \A i \in n + 1 .. n : FALSE
        BY <1>4
      <4>2. out \in Seq(Turn) /\ \A j \in 1 .. Len(out) : FALSE
        BY <1>8
      <4> QED BY <4>1, <4>2 DEF Lists, Picked
    <3> QED BY <1>1, <1>4, <3>1, DialogueOf DEF L
  <2> HIDE DEF out, rest
  <2>3. /\ pc'[r] = "number" /\ recent'[r] = rest /\ summary'[r] = conversation.summary
        /\ conversation' = conversation /\ turns' = turns
    BY <1>1, <1>3, <1>8 DEF TypeOK
  <2>4. Lists(recent[r], conversation.through, Len(turns))'
    BY <1>5, <2>1, <2>3 DEF Lists, Picked, n, L
  <2>5. Ready(r)'
    BY <1>6, <2>3, <2>4 DEF Ready
  <2> QED BY <2>2, <2>3, <2>5 DEF Progress
<1>9. ASSUME out # <<>> PROVE Progress(r)' /\ Dialogue(out) \in Seq(Nat \X (1 .. Parts))
  <2> DEFINE m == ts[first - 1].number
  <2>1. first \in 2 .. Len(ts) + 1
    <3>1. first # 1
      BY <1>5, <1>9
    <3> QED BY <1>6, <3>1
  <2>2. /\ m \in n + 1 .. L /\ Len(out) = first - 1 /\ out[first - 1].number = m
        /\ Lists(out, n, m) /\ Lists(rest, m, L)
    BY <1>1, <1>4, <1>5, <2>1, CutList DEF L
  <2> HIDE DEF out, rest, m
  <2>3. /\ Dialogue(out) \in Seq(Nat \X (1 .. Parts)) /\ Range(Dialogue(out)) = Dialogues(n, m)
    BY <1>1, <1>4, <2>2, DialogueOf, SMTT(30) DEF L
  <2>4. /\ pc'[r] = "summarize" /\ recent'[r] = rest /\ evicted'[r] = out
        /\ summary'[r] = conversation.summary /\ transcript'[r] = Dialogue(out)
        /\ conversation' = conversation /\ turns' = turns
    BY <1>1, <1>3, <1>9 DEF TypeOK
  <2>5. LastEvicted(r)' = m
    BY <2>2, <2>4 DEF LastEvicted
  <2>6. Lists(recent[r], LastEvicted(r), Len(turns))'
    BY <2>2, <2>4, <2>5 DEF Lists, Picked, L
  <2>7. Dialogues(0, LastEvicted(r))' = Dialogues(0, m)
    BY <2>4, <2>5 DEF Dialogues
  <2>8. Dialogues(0, m) = Dialogues(0, n) \cup Dialogues(n, m) /\ conversation.summary = Dialogues(0, n)
    BY <1>1, <1>4, <2>2, DialoguesJoin DEF RowsInv, n
  <2>9. Cost(rest) <= Budget - Reserved
    BY <1>6, <2>1
  <2>10. Summarizing(r)'
    BY <1>9, <2>2, <2>3, <2>4, <2>5, <2>6, <2>7, <2>8, <2>9 DEF Summarizing, n, L
  <2> QED BY <2>3, <2>4, <2>10 DEF Progress
<1> HIDE DEF out, rest
<1>10. TypeOK'
  <2>1. Dialogue(out) \in Seq(Nat \X (1 .. Parts))
    BY <1>8, <1>9
  <2>2. conversation.summary \in SUBSET (Nat \X (1 .. Parts))
    BY <1>1 DEF TypeOK, Row
  <2>3. recent' \in [Requests -> Seq(Turn)] /\ evicted' \in [Requests -> Seq(Turn)]
    BY <1>1, <1>3, <1>7, Zenon DEF TypeOK
  <2>4. transcript' \in [Requests -> Seq(Nat \X (1 .. Parts))]
    BY <1>1, <1>3, <2>1, Zenon DEF TypeOK
  <2>5. summary' \in [Requests -> SUBSET (Nat \X (1 .. Parts))]
    BY <1>1, <1>3, <2>2, Zenon DEF TypeOK
  <2> QED BY <1>1, <1>3, <2>3, <2>4, <2>5 DEF TypeOK
<1>11. RowsInv'
  BY <1>1, <1>3, RowsKept
<1> QED BY <1>8, <1>9, <1>10, <1>11

\* An excerpt goes from the transcript into the summary; nothing falls between.
LEMMA SummarizeStep ==
  ASSUME IInv, HInv, NEW r \in Requests, Summarize(r)
  PROVE  TypeOK' /\ RowsInv' /\ Progress(r)'
<1>1. /\ TypeOK /\ RowsInv
      /\ pc' \in [Requests -> {"idle", "claim"} \cup Claimed \cup Ended \cup Stranded]
      /\ faults' \in 0 .. MaxFaults
  BY PlaceTypes DEF HInv, Step
<1>2. Summarizing(r)
  BY DEF HInv, Progress, Summarize
<1> DEFINE d == transcript[r]
<1>3. PICK n \in 1 .. Len(d) :
        /\ summary' = [summary EXCEPT ![r] = @ \cup {d[i] : i \in 1 .. n}]
        /\ transcript' = [transcript EXCEPT ![r] = SubSeq(@, n + 1, Len(@))]
        /\ Goto(r, IF n = Len(d) THEN "checkpoint" ELSE "summarize")
  BY DEF Summarize
<1> DEFINE told == {d[i] : i \in 1 .. n}
           left == SubSeq(d, n + 1, Len(d))
<1>4. d \in Seq(Nat \X (1 .. Parts)) /\ Len(d) \in Nat /\ DOMAIN d = 1 .. Len(d)
  BY <1>1 DEF TypeOK
<1>5. left \in Seq(Nat \X (1 .. Parts)) /\ Len(left) = Len(d) - n
      /\ \A j \in 1 .. Len(d) - n : left[j] = d[j + n]
  <2> DEFINE S == Nat \X (1 .. Parts)
  <2> HIDE DEF S, d
  <2>1. d \in Seq(S) /\ \A j \in n + 1 .. Len(d) : d[j] \in S
    BY <1>4, ElementOfSeq DEF S
  <2>2. /\ left \in Seq(S) /\ Len(left) = (IF n + 1 <= Len(d) THEN Len(d) - (n + 1) + 1 ELSE 0)
        /\ \A j \in 1 .. Len(d) - (n + 1) + 1 : left[j] = d[(n + 1) + j - 1]
    <3> DEFINE a == n + 1
               z == Len(d)
    <3>1. a \in Int /\ z \in Int /\ \A i \in a .. z : d[i] \in S
      BY <1>4, <2>1
    <3> HIDE DEF a, z
    <3>2. /\ SubSeq(d, a, z) \in Seq(S)
          /\ Len(SubSeq(d, a, z)) = IF a <= z THEN z - a + 1 ELSE 0
          /\ \A i \in 1 .. z - a + 1 : SubSeq(d, a, z)[i] = d[a + i - 1]
      BY <3>1, SubSeqProperties, SMTT(30)
    <3> QED BY <3>2 DEF a, z
  <2> HIDE DEF left
  <2>3. left \in Seq(S) /\ Len(left) = Len(d) - n
    <3> DEFINE z == Len(d)
               l == Len(left)
    <3>1. l = IF n + 1 <= z THEN z - (n + 1) + 1 ELSE 0
      BY <2>2
    <3>2. z \in Nat /\ n \in 1 .. z
      BY <1>3, <1>4
    <3> HIDE DEF z, l
    <3>3. l = z - n
      BY <3>1, <3>2
    <3> QED BY <2>2, <3>3, Zenon DEF z, l
  <2>4. ASSUME NEW j \in 1 .. Len(d) - n PROVE left[j] = d[j + n]
    <3>1. j \in 1 .. Len(d) - (n + 1) + 1 /\ (n + 1) + j - 1 = j + n
      BY <1>4
    <3> QED BY <2>2, <3>1, Zenon
  <2> QED BY <2>3, <2>4 DEF S
<1>6. told \subseteq Nat \X (1 .. Parts)
  BY <1>4
<1>7. told \cup Range(left) = Range(d)
  <2>1. ASSUME NEW i \in 1 .. Len(d) PROVE d[i] \in told \cup Range(left)
    <3>1. CASE i <= n
      BY <1>4, <3>1, SMTT(30)
    <3>2. CASE i > n
      <4>1. i - n \in 1 .. Len(left) /\ DOMAIN left = 1 .. Len(left) /\ left[i - n] = d[(i - n) + n]
        BY <1>4, <1>5, <3>2
      <4>0. (i - n) + n = i
        BY <1>4
      <4> HIDE DEF left, told
      <4>2. left[i - n] = d[i]
        BY <4>0, <4>1
      <4> QED BY <4>1, <4>2 DEF Range
    <3> QED BY <1>4, <3>1, <3>2
  <2>2. told \subseteq Range(d)
    <3>1. \A i \in 1 .. n : i \in DOMAIN d
      BY <1>4
    <3> QED BY <3>1 DEF Range
  <2>3. Range(left) \subseteq Range(d)
    <3>1. DOMAIN left = 1 .. Len(d) - n
      BY <1>4, <1>5
    <3>2. ASSUME NEW j \in DOMAIN left PROVE left[j] \in Range(d)
      <4>1. j \in Nat /\ j >= 1 /\ j <= Len(d) - n
        BY <1>4, <3>1
      <4>2. j + n \in DOMAIN d
        BY <1>4, <4>1
      <4>3. left[j] = d[j + n]
        BY <1>5, <3>1
      <4> HIDE DEF left
      <4> QED BY <4>2, <4>3 DEF Range
    <3> HIDE DEF left
    <3> QED BY <3>2 DEF Range
  <2> HIDE DEF told, left
  <2> QED BY <1>4, <2>1, <2>2, <2>3 DEF Range
<1>8. n = Len(d) => left = <<>>
  BY <1>4, <1>5
<1> HIDE DEF told, left
<1>9. /\ summary' = [summary EXCEPT ![r] = summary[r] \cup told]
      /\ transcript' = [transcript EXCEPT ![r] = left]
      /\ pc' = [pc EXCEPT ![r] = IF n = Len(d) THEN "checkpoint" ELSE "summarize"]
      /\ conversation' = conversation /\ turns' = turns
      /\ seen' = seen /\ recent' = recent /\ evicted' = evicted /\ number' = number
  BY <1>1, <1>3 DEF TypeOK, Summarize, Goto, rows, told, left
<1>10. TypeOK'
  <2>1. summary[r] \cup told \in SUBSET (Nat \X (1 .. Parts))
    BY <1>1, <1>6 DEF TypeOK
  <2>2. summary' \in [Requests -> SUBSET (Nat \X (1 .. Parts))]
    BY <1>1, <1>9, <2>1, Zenon DEF TypeOK
  <2>3. transcript' \in [Requests -> Seq(Nat \X (1 .. Parts))]
    BY <1>1, <1>5, <1>9, Zenon DEF TypeOK
  <2> QED BY <1>1, <1>9, <2>2, <2>3 DEF TypeOK
<1>11. /\ summary'[r] = summary[r] \cup told /\ transcript'[r] = left
       /\ pc'[r] = IF n = Len(d) THEN "checkpoint" ELSE "summarize"
  BY <1>1, <1>9 DEF TypeOK
<1>12. Summarizing(r)'
  <2>1. LastEvicted(r)' = LastEvicted(r)
    BY <1>9 DEF LastEvicted
  <2>2. Lists(recent[r], LastEvicted(r), Len(turns))'
    BY <1>2, <1>9, <2>1 DEF Summarizing, Lists, Picked
  <2>3. Dialogues(0, LastEvicted(r))' = Dialogues(0, LastEvicted(r))
    BY <1>9, <2>1 DEF Dialogues
  <2>4. summary'[r] \cup Range(transcript'[r]) = summary[r] \cup Range(d)
    BY <1>7, <1>11
  <2> QED BY <1>2, <1>9, <1>11, <2>1, <2>2, <2>3, <2>4 DEF Summarizing
<1>13. Progress(r)'
  BY <1>8, <1>11, <1>12 DEF Progress
<1> QED BY <1>1, <1>9, <1>10, <1>13, RowsKept

\* The stored summary now reaches to where the history begins.
LEMMA CheckpointStep ==
  ASSUME IInv, HInv, NEW r \in Requests, Checkpoint(r)
  PROVE  TypeOK' /\ RowsInv' /\ Progress(r)'
<1>1. /\ TypeOK /\ RowsInv
      /\ pc' \in [Requests -> {"idle", "claim"} \cup Claimed \cup Ended \cup Stranded]
      /\ faults' \in 0 .. MaxFaults
  BY PlaceTypes DEF HInv, Step
<1>2. Summarizing(r) /\ transcript[r] = <<>>
  BY DEF HInv, Progress, Checkpoint
<1>3. turns' = turns /\ locals' = locals
  BY DEF Checkpoint
<1> DEFINE m == LastEvicted(r)
           s == summary[r]
<1>4. CASE /\ conversation' = [conversation EXCEPT !.summary = summary[r],
                                 !.through = evicted[r][Len(evicted[r])].number]
           /\ Goto(r, "number")
  <2>1. m \in Nat /\ s \in SUBSET (Nat \X (1 .. Parts)) /\ m \in 0 .. Len(turns)
    <3>1. conversation.through \in Nat /\ Len(turns) \in Nat
      BY <1>1 DEF TypeOK, Row
    <3> QED BY <1>1, <1>2, <3>1 DEF Summarizing, TypeOK
  <2>2. conversation' = [conversation EXCEPT !.summary = s, !.through = m]
    BY <1>4 DEF LastEvicted
  <2>3. Dialogues(0, m) = s
    <3>1. Range(transcript[r]) = {}
      BY <1>2 DEF Range
    <3> QED BY <1>2, <3>1 DEF Summarizing
  <2>4. Lists(recent[r], m, Len(turns)) /\ Cost(recent[r]) <= Budget - Reserved
    BY <1>2 DEF Summarizing
  <2> HIDE DEF m, s
  <2>5. conversation' \in Row
    BY <1>1, <2>1, <2>2, Zenon DEF TypeOK, Row
  <2>6. conversation'.summary = s
    BY <1>1, <2>2, Zenon DEF TypeOK, Row
  <2>7. conversation'.through = m
    BY <1>1, <2>2, Zenon DEF TypeOK, Row
  <2> HIDE <1>4, <2>2
  <2>8. TypeOK'
    BY <1>1, <1>3, <2>5 DEF TypeOK, locals
  <2>9. RowsInv'
    <3>1. Dialogues(0, conversation.through)' = Dialogues(0, m)
      BY <1>3, <2>7 DEF Dialogues
    <3> QED BY <1>3, <2>1, <2>3, <2>6, <2>7, <3>1 DEF RowsInv
  <2>10. Lists(recent[r], conversation.through, Len(turns))'
    BY <1>3, <2>4, <2>7 DEF Lists, Picked, locals
  <2>11. Ready(r)'
    <3>1. Cost(recent[r]) \in Nat
      <4>1. recent[r] \in Seq(Turn)
        BY <1>1 DEF TypeOK
      <4> QED BY <4>1, CostOfTurns
    <3>2. Cost(recent[r])' = Cost(recent[r]) /\ summary'[r] = s
      BY <1>3 DEF locals, s
    <3> QED BY <2>4, <2>6, <2>10, <3>1, <3>2, BudgetAssumption DEF Ready
  <2>12. pc'[r] = "number"
    BY <1>1, <1>4 DEF TypeOK, Goto
  <2> QED BY <2>8, <2>9, <2>11, <2>12 DEF Progress
<1>5. CASE Goto(r, "release") /\ conversation' = conversation
  <2>1. pc'[r] = "release"
    BY <1>1, <1>5 DEF TypeOK, Goto
  <2>2. TypeOK'
    BY <1>1, <1>3, <1>5 DEF TypeOK, locals
  <2> QED BY <1>1, <1>3, <1>5, <2>1, <2>2, RowsKept DEF Progress
<1> QED BY <1>4, <1>5 DEF Checkpoint

\* The number and the turn: the summary is left alone, and the turn comes after it.
LEMMA NumberTaken ==
  ASSUME IInv, HInv, NEW r \in Requests, ReadNumber(r)
  PROVE  TypeOK' /\ RowsInv' /\ Progress(r)'
<1>1. /\ TypeOK /\ RowsInv /\ Types /\ TurnsNumbered
      /\ pc' \in [Requests -> {"idle", "claim"} \cup Claimed \cup Ended \cup Stranded]
      /\ faults' \in 0 .. MaxFaults
  BY PlaceTypes DEF HInv, IInv, Step
<1>2. /\ conversation' = conversation /\ turns' = turns /\ seen' = seen /\ recent' = recent
      /\ evicted' = evicted /\ transcript' = transcript /\ summary' = summary
      /\ number' = [number EXCEPT ![r] = LastNumber] /\ pc'[r] = "create"
  BY <1>1 DEF ReadNumber, rows, Goto, TypeOK
<1>3. number' \in [Requests -> Nat]
  <2>1. LastNumber \in Nat
    BY <1>1, LastIsLength
  <2> QED BY <1>1, <1>2, <2>1 DEF TypeOK
<1>4. TypeOK'
  BY <1>1, <1>2, <1>3 DEF TypeOK
<1>5. Ready(r)
  BY DEF HInv, Progress, ReadNumber
<1>6. Lists(recent[r], conversation.through, Len(turns))'
  BY <1>2, <1>5 DEF Ready, Lists, Picked
<1>7. Ready(r)'
  BY <1>2, <1>5, <1>6 DEF Ready
<1> QED BY <1>1, <1>2, <1>4, <1>7, RowsKept DEF Progress

\* Turns after the checkpoint may come and go: what is stored does not depend on them.
LEMMA RowsApart ==
  ASSUME RowsInv, turns \in Seq(Turn), turns' \in Seq(Turn), conversation' = conversation,
         Len(turns) <= Len(turns'),
         \A i \in 1 .. conversation.through : turns'[i] = turns[i]
  PROVE  RowsInv'
<1>1. conversation.through \in 0 .. Len(turns) /\ Len(turns) \in Nat /\ Len(turns') \in Nat
  BY DEF RowsInv
<1>2. Dialogues(0, conversation.through)' = Dialogues(0, conversation.through)
  BY <1>1 DEF Dialogues
<1>3. conversation.through \in 0 .. Len(turns')
  BY <1>1
<1> QED BY <1>2, <1>3 DEF RowsInv

\* Creating and ending a turn touch no turn that the stored summary covers.
LEMMA TurnSteps ==
  ASSUME IInv, HInv, NEW r \in Requests, CreateTurn(r) \/ RunEnds(r)
  PROVE  TypeOK' /\ RowsInv' /\ Progress(r)'
<1>1. /\ TypeOK /\ RowsInv /\ TurnsNumbered
      /\ pc' \in [Requests -> {"idle", "claim"} \cup Claimed \cup Ended \cup Stranded]
      /\ faults' \in 0 .. MaxFaults
  BY PlaceTypes DEF HInv, IInv, Step
<1>2. conversation' = conversation /\ locals' = locals
  BY DEF CreateTurn, RunEnds
<1>3. /\ turns \in Seq(Turn) /\ Len(turns) \in Nat /\ DOMAIN turns = 1 .. Len(turns)
      /\ conversation.through \in Nat /\ conversation.through \in 0 .. Len(turns)
      /\ number[r] \in Nat
  BY <1>1 DEF TypeOK, RowsInv
<1>4. CASE turns' = turns
  <2>1. TypeOK'
    BY <1>1, <1>2, <1>4 DEF TypeOK, locals
  <2>2. pc'[r] = "release"
    <3>1. CASE CreateTurn(r)
      <4>1. Goto(r, "release")
        <5>1. ASSUME NEW c \in Costs,
                     turns' = Append(turns, [number |-> number[r] + 1, status |-> "running", cost |-> c])
              PROVE  FALSE
          <6>1. Len(turns') = Len(turns) + 1
            BY <1>3, <5>1
          <6> QED BY <1>3, <1>4, <6>1
        <5> QED BY <3>1, <5>1 DEF CreateTurn
      <4> QED BY <1>1, <4>1 DEF TypeOK, Goto
    <3>2. CASE RunEnds(r)
      BY <1>1, <3>2 DEF TypeOK, RunEnds, Goto
    <3> QED BY <3>1, <3>2
  <2> QED BY <1>1, <1>2, <1>4, <2>1, <2>2, RowsKept DEF Progress
<1>5. ASSUME NEW c \in Costs, CreateTurn(r), Goto(r, "run"),
             turns' = Append(turns, [number |-> number[r] + 1, status |-> "running", cost |-> c])
      PROVE  TypeOK' /\ RowsInv' /\ Progress(r)'
  <2> DEFINE t == [number |-> number[r] + 1, status |-> "running", cost |-> c]
  <2>1. t \in Turn /\ turns' = Append(turns, t)
    <3>1. number[r] + 1 \in Nat \ {0}
      BY <1>3
    <3> QED BY <1>5, <3>1 DEF Turn
  <2> HIDE DEF t
  <2>2. /\ turns' \in Seq(Turn) /\ Len(turns') = Len(turns) + 1
        /\ \A i \in 1 .. Len(turns) : turns'[i] = turns[i]
    BY <1>3, <2>1, AppendTurn
  <2>3. RowsInv'
    <3>1. \A i \in 1 .. conversation.through : turns'[i] = turns[i]
      BY <1>3, <2>2
    <3> QED BY <1>1, <1>2, <1>3, <2>2, <3>1, RowsApart
  <2>4. TypeOK'
    BY <1>1, <1>2, <2>2 DEF TypeOK, locals
  <2>5. number[r] = Len(turns)
    BY <1>5 DEF IInv, NumberInv, CreateTurn
  <2>6. pc'[r] = "run" /\ conversation'.through <= number'[r]
    BY <1>1, <1>2, <1>3, <1>5, <2>5 DEF TypeOK, Goto, locals
  <2> QED BY <2>3, <2>4, <2>6 DEF Progress
<1>6. ASSUME NEW status \in {"completed", "failed"}, RunEnds(r), Settle(r, status)
      PROVE  TypeOK' /\ RowsInv' /\ Progress(r)'
  <2>1. turns' \in Seq(Turn) /\ Len(turns') = Len(turns)
    BY <1>3, <1>6, SettleFacts
  <2>2. conversation.through <= number[r]
    BY <1>6 DEF HInv, Progress, RunEnds
  <2>3. ASSUME NEW i \in 1 .. conversation.through PROVE turns'[i] = turns[i]
    <3>1. i \in DOMAIN turns /\ i # number[r] + 1 /\ turns[i].number = i
      BY <1>1, <1>3, <2>2 DEF TurnsNumbered
    <3> QED BY <1>6, <3>1 DEF Settle
  <2>4. RowsInv'
    BY <1>1, <1>2, <1>3, <2>1, <2>3, RowsApart
  <2>5. TypeOK'
    BY <1>1, <1>2, <2>1 DEF TypeOK, locals
  <2>6. pc'[r] = "release"
    BY <1>1, <1>6 DEF TypeOK, RunEnds, Goto
  <2> QED BY <2>4, <2>5, <2>6 DEF Progress
<1>7. \/ turns' = turns
      \/ \E c \in Costs : /\ CreateTurn(r) /\ Goto(r, "run")
                          /\ turns' = Append(turns, [number |-> number[r] + 1, status |-> "running",
                                                     cost |-> c])
      \/ \E status \in {"completed", "failed"} : RunEnds(r) /\ Settle(r, status)
  BY Zenon DEF CreateTurn, RunEnds
<1> QED BY <1>4, <1>5, <1>6, <1>7, Zenon

\* Every step keeps what is said of the summary and the histories.
LEMMA HistoryStep == IInv /\ HInv /\ [Next]_vars => HInv'
<1> SUFFICES ASSUME IInv, HInv, [Next]_vars PROVE HInv'
  OBVIOUS
<1>1. CASE UNCHANGED vars
  <2>1. /\ conversation' = conversation /\ turns' = turns /\ pc' = pc /\ faults' = faults
        /\ seen' = seen /\ recent' = recent /\ evicted' = evicted
        /\ transcript' = transcript /\ summary' = summary /\ number' = number
    BY <1>1 DEF vars, rows, locals
  <2>2. TypeOK'
    BY <2>1 DEF HInv, TypeOK
  <2>3. RowsInv'
    BY <2>1, RowsKept DEF HInv
  <2>4. ASSUME NEW x \in Requests PROVE Progress(x)'
    BY <2>1, StillGoing DEF HInv
  <2> QED BY <2>2, <2>3, <2>4, Zenon DEF HInv
<1>2. ASSUME NEW r \in Requests, Load(r) \/ Step(r) \/ Crash(r) PROVE HInv'
  <2>1. TypeOK' /\ RowsInv' /\ Progress(r)'
    BY <1>2, OutsideStep, SelectStep, SummarizeStep, CheckpointStep, NumberTaken, TurnSteps, Zenon
       DEF Step
  <2>2. ASSUME NEW x \in Requests \ {r} PROVE Progress(x)'
    <3>1. /\ pc'[x] = pc[x] /\ seen'[x] = seen[x] /\ recent'[x] = recent[x]
          /\ evicted'[x] = evicted[x] /\ transcript'[x] = transcript[x]
          /\ summary'[x] = summary[x] /\ number'[x] = number[x]
          /\ pc[x] \in Claimed => conversation' = conversation /\ turns' = turns
      BY <1>2, OthersKeep, Zenon DEF HInv
    <3>2. Progress(x)
      BY DEF HInv
    <3> QED BY <3>1, <3>2, StillGoing
  <2> QED BY <2>1, <2>2, Zenon DEF HInv
<1> QED BY <1>1, <1>2, Zenon DEF Next

\* It holds before the first request.
LEMMA HistoryInit == Init => HInv
<1> SUFFICES ASSUME Init PROVE HInv
  OBVIOUS
<1>1. NoRow \in Row /\ NoRow.through = 0 /\ NoRow.summary = {}
  BY DEF NoRow, Row
<1>2. TypeOK
  <2>1. turns \in Seq(Turn) /\ <<>> \in Seq(Turn) /\ <<>> \in Seq(Nat \X (1 .. Parts))
    BY DEF Init
  <2> QED BY <1>1, <2>1, BudgetAssumption DEF Init, TypeOK
<1>3. RowsInv
  <2>1. Dialogues(0, 0) = {}
    BY DEF Dialogues
  <2> QED BY <1>1, <2>1 DEF Init, RowsInv
<1> QED BY <1>2, <1>3 DEF Init, HInv, Progress

--------------------------------------------------------------------------------

\* So it holds in every reachable state.
LEMMA History == Spec => [](IInv /\ HInv)
<1>1. IInv /\ [Next]_vars => IInv'
  BY TypeStep, OneTurnStep, NumberStep DEF IInv
<1> QED BY <1>1, Initially, HistoryInit, HistoryStep, PTL DEF Spec

\* Every variable keeps its type; the summary and the numbers stay within the turns.
THEOREM TypeCorrect == Spec => []TypeOK
<1>1. HInv => TypeOK
  BY DEF HInv
<1> QED BY History, <1>1, PTL

\* Whatever fails in between, the model is sent every completed turn exactly once: whole
\* and in order, or with its whole dialogue in the summary (prepare_history and
\* _summarize, whose excerpts are cut anywhere).
THEOREM HistoriesAreComplete == Spec => []HistoryComplete
<1>1. IInv /\ HInv => HistoryComplete
  <2> SUFFICES ASSUME IInv, HInv, NEW r \in Requests, pc[r] \in {"number", "create"}
               PROVE  LET older == {i \in DOMAIN turns : Completed(turns[i]) /\ i <= conversation.through}
                          newer == {i \in DOMAIN turns : Completed(turns[i]) /\ i > conversation.through}
                      IN  /\ Range(recent[r]) = {turns[i] : i \in newer}
                          /\ \A j, k \in DOMAIN recent[r] :
                               j < k => recent[r][j].number < recent[r][k].number
                          /\ summary[r] = UNION {Pieces(turns[i]) : i \in older}
    BY DEF HistoryComplete
  <2> DEFINE n == conversation.through
             L == Len(turns)
             list == recent[r]
             older == {i \in DOMAIN turns : Completed(turns[i]) /\ i <= n}
             newer == {i \in DOMAIN turns : Completed(turns[i]) /\ i > n}
  <2>1. Ready(r) /\ RowsInv /\ TypeOK /\ Types /\ TurnsNumbered
    BY DEF HInv, IInv, Progress
  <2>2. /\ n \in Nat /\ L \in Nat /\ n <= L /\ DOMAIN turns = 1 .. L
        /\ \A i \in 1 .. L : turns[i].number = i
    BY <2>1 DEF RowsInv, TypeOK, TurnsNumbered
  <2>3. /\ DOMAIN list = 1 .. Len(list)
        /\ \A j \in 1 .. Len(list) : /\ Completed(list[j]) /\ list[j].number \in n + 1 .. L
                                     /\ list[j] = turns[list[j].number]
        /\ \A j, k \in 1 .. Len(list) : j < k => list[j].number < list[k].number
        /\ \A i \in n + 1 .. L : Completed(turns[i]) => \E j \in 1 .. Len(list) : list[j] = turns[i]
    <3>1. Picked(list, n, L) /\ \A i \in n + 1 .. L :
            Completed(turns[i]) => \E j \in 1 .. Len(list) : list[j] = turns[i]
      BY <2>1, Zenon DEF Ready, Lists
    <3> HIDE DEF list, n, L
    <3>2. DOMAIN list = 1 .. Len(list)
      BY <3>1 DEF Picked
    <3> QED BY <3>1, <3>2, Zenon DEF Picked
  <2>4. summary[r] = Dialogues(0, n)
    BY <2>1 DEF Ready, RowsInv
  <2>5. older = {j \in 0 + 1 .. n : Completed(turns[j])} /\ newer = {j \in n + 1 .. L : Completed(turns[j])}
    BY <2>2
  <2> HIDE DEF n, L, list, older, newer
  <2>6. summary[r] = UNION {Pieces(turns[i]) : i \in older}
    BY <2>4, <2>5 DEF Dialogues
  <2>7. Range(list) = {turns[i] : i \in newer}
    <3>1. ASSUME NEW j \in DOMAIN list PROVE \E i \in newer : turns[i] = list[j]
      BY <2>3, <2>5, <3>1
    <3>2. ASSUME NEW i \in newer PROVE \E j \in DOMAIN list : list[j] = turns[i]
      BY <2>3, <2>5, <3>2
    <3> QED BY <3>1, <3>2 DEF Range
  <2> QED BY <2>3, <2>6, <2>7 DEF n, L, list, older, newer
<1> QED BY History, <1>1, PTL

\* What the model is sent fits history_token_budget, whatever the turns cost: the room
\* set aside for the summary is enough for the one that is made (prepare_history).
THEOREM HistoriesFit == Spec => []WithinBudget
<1>1. HInv => WithinBudget
  BY DEF HInv, WithinBudget, Progress, Ready
<1> QED BY History, <1>1, PTL

\* The stored summary moves forward only, together with what it covers (the one commit
\* at the end of _summarize).
THEOREM SummariesAdvance == Spec => CheckpointAdvances
<1> DEFINE A == conversation'.summary # conversation.summary
                \/ conversation'.through # conversation.through
                => /\ conversation'.through > conversation.through
                   /\ conversation.summary \subseteq conversation'.summary
<1>1. IInv /\ HInv /\ [Next]_vars => [A]_vars
  <2> SUFFICES ASSUME IInv, HInv, NEW r \in Requests, Load(r) \/ Step(r) \/ Crash(r),
                      \/ conversation'.summary # conversation.summary
                      \/ conversation'.through # conversation.through
               PROVE  /\ conversation'.through > conversation.through
                      /\ conversation.summary \subseteq conversation'.summary
    BY Zenon DEF Next
  <2>1. TypeOK /\ RowsInv
    BY DEF HInv
  <2>2. \/ conversation' = conversation
        \/ \E b \in BOOLEAN : conversation' = [conversation EXCEPT !.running = b]
        \/ /\ pc[r] = "checkpoint"
           /\ conversation' = [conversation EXCEPT !.summary = summary[r],
                                 !.through = evicted[r][Len(evicted[r])].number]
    BY Zenon DEF Step, Load, Claim, Refresh, Select, Summarize, SummaryFails, Checkpoint, ReadNumber,
         CreateTurn, RunEnds, Release, Crash, rows
  <2>3. /\ pc[r] = "checkpoint"
        /\ conversation' = [conversation EXCEPT !.summary = summary[r], !.through = LastEvicted(r)]
    BY <2>1, <2>2, RowTypes DEF TypeOK, LastEvicted
  <2>4. conversation'.through = LastEvicted(r)
    BY <2>1, <2>3, Zenon DEF TypeOK, Row
  <2>5. conversation'.summary = summary[r]
    BY <2>1, <2>3, Zenon DEF TypeOK, Row
  <2>6. Summarizing(r)
    BY <2>3 DEF HInv, Progress
  <2>7. conversation.through \in Nat /\ Len(turns) \in Nat
    BY <2>1 DEF TypeOK, Row
  <2> HIDE <2>2, <2>3
  <2>8. LastEvicted(r) > conversation.through /\ conversation.summary \subseteq summary[r]
    BY <2>6, <2>7 DEF Summarizing
  <2> QED BY <2>4, <2>5, <2>8
<1> QED BY <1>1, History, PTL DEF Spec, CheckpointAdvances
================================================================================
