--------------------------- MODULE GetAddressProofs ---------------------------
(***************************************************************************)
(* What get_address_apdu returns is the key and address of one path under  *)
(* the prefix, and what it has shown is the same address: for bytes of any *)
(* radix, steps of any width, and any parameters and blocks, cut anywhere. *)
(* Every request runs out of steps, and the handler implements             *)
(* AddressPromise.                                                         *)
(***************************************************************************)
EXTENDS GetAddress, Recursion

-----------------------------------------------------------------------------
(* What the bytes of a step denote *)

\* The numbers LittleEndian goes through, from the last byte to the first.
LEMMA LittleEndianGoes ==
    ASSUME NEW w \in Seq(Byte)
    PROVE  \E v \in [0..Len(w) -> Nat] :
              /\ v[0] = 0
              /\ \A k \in 1..Len(w) : v[k] = v[k - 1] * Radix + w[Len(w) + 1 - k]
              /\ LittleEndian(w) = v[Len(w)]
  <1> DEFINE N == Len(w)
             G == [p \in (1..N) \X Nat |-> p[2] * Radix + w[N + 1 - p[1]]]
             Is(h) == h = [k \in 0..N |->
                             IF k = 0 THEN 0 ELSE h[k - 1] * Radix + w[N + 1 - k]]
             upTo == CHOOSE h : Is(h)
  <1>1. N \in Nat /\ \A k \in 1..N : w[N + 1 - k] \in Nat
    <2>1. N \in Nat /\ \A k \in 1..N : N + 1 - k \in 1..N
      OBVIOUS
    <2> QED BY <2>1, SizesAssumption DEF Byte
  <1> HIDE DEF N
  <1>2. G \in [(1..N) \X Nat -> Nat]
    <2>1. ASSUME NEW v \in Nat, NEW k \in 1..N
          PROVE  v * Radix + w[N + 1 - k] \in Nat
      <3>1. Radix \in Nat
        BY SizesAssumption
      <3>2. v * Radix \in Nat
        BY <3>1
      <3>3. w[N + 1 - k] \in Nat
        BY <1>1
      <3> QED BY <3>2, <3>3
    <2> QED BY <2>1
  <1>3. PICK f : Recurses(f, Nat, 0, G, N)
    <2> HIDE DEF G
    <2>1. 0 \in Nat /\ N \in Nat
      BY <1>1
    <2> QED BY <1>2, <2>1, RecursionExists, Zenon
  <1>4. Is(upTo)
    <2>1. /\ f \in [0..N -> Nat] /\ f[0] = 0
          /\ \A k \in 1..N : f[k] = G[<<k, f[k - 1]>>]
      <3> HIDE DEF G
      <3> QED BY <1>3 DEF Recurses
    <2>2. ASSUME NEW k \in 1..N
          PROVE  f[k] = f[k - 1] * Radix + w[N + 1 - k]
      <3>1. f[k - 1] \in Nat
        BY <1>1, <2>1
      <3> QED BY <2>1, <3>1
    <2>3. Is(f)
      BY <1>1, <2>1, <2>2
    <2> HIDE DEF Is
    <2> QED BY <2>3
  <1>5. LittleEndian(w) = upTo[N]
    BY Zenon DEF LittleEndian, N
  <1>6. Recurses(upTo, Nat, 0, G, N)
    <2> HIDE DEF upTo
    <2>1. upTo = [k \in 0..N |-> upTo[k]] /\ upTo[0] = 0
      BY <1>1, <1>4
    <2>2. ASSUME NEW k \in 1..N, upTo[k - 1] \in Nat
          PROVE  upTo[k] = G[<<k, upTo[k - 1]>>]
      <3>1. k \in 0..N /\ k # 0
        BY <1>1
      <3>2. upTo[k] = upTo[k - 1] * Radix + w[N + 1 - k]
        BY <1>4, <3>1
      <3>3. G[<<k, upTo[k - 1]>>] = upTo[k - 1] * Radix + w[N + 1 - k]
        BY <2>2
      <3> QED BY <3>2, <3>3
    <2> HIDE DEF G, Is
    <2> QED BY <1>1, <1>2, <2>1, <2>2, RecurrenceHolds
  <1> HIDE DEF upTo
  <1>7. upTo \in [0..N -> Nat]
    BY <1>6 DEF Recurses
  <1>8. \A k \in 1..N : upTo[k] = upTo[k - 1] * Radix + w[N + 1 - k]
    BY <1>1, <1>4
  <1>9. upTo[0] = 0
    BY <1>1, <1>4
  <1> HIDE DEF Is, G
  <1> QED BY <1>5, <1>7, <1>8, <1>9 DEF N

\* However many bytes a step has, they denote a number.
LEMMA LittleEndianType ==
    ASSUME NEW w \in Seq(Byte)
    PROVE  LittleEndian(w) \in Nat
  <1>1. Len(w) \in 0..Len(w)
    OBVIOUS
  <1> QED BY <1>1, LittleEndianGoes

\* What a place counts.
LEMMA WorthGoes ==
    ASSUME NEW N \in Nat
    PROVE  /\ Worth(N) \in [0..N -> Nat]
           /\ Worth(N)[0] = 1
           /\ \A k \in 1..N : Worth(N)[k] = Worth(N)[k - 1] * Radix
  <1> DEFINE G == [p \in (1..N) \X Nat |-> p[2] * Radix]
             Is(h) == h = [k \in 0..N |-> IF k = 0 THEN 1 ELSE h[k - 1] * Radix]
             u == CHOOSE h : Is(h)
  <1>1. G \in [(1..N) \X Nat -> Nat]
    <2>1. ASSUME NEW v \in Nat
          PROVE  v * Radix \in Nat
      BY SizesAssumption
    <2> QED BY <2>1
  <1>2. PICK f : Recurses(f, Nat, 1, G, N)
    <2> HIDE DEF G
    <2>1. 1 \in Nat
      OBVIOUS
    <2> QED BY <1>1, <2>1, RecursionExists, Zenon
  <1>3. Is(u)
    <2>1. /\ f \in [0..N -> Nat] /\ f[0] = 1
          /\ \A k \in 1..N : f[k] = G[<<k, f[k - 1]>>]
      <3> HIDE DEF G
      <3> QED BY <1>2 DEF Recurses
    <2>2. ASSUME NEW k \in 1..N
          PROVE  f[k] = f[k - 1] * Radix
      <3>1. f[k - 1] \in Nat
        BY <2>1
      <3> QED BY <2>1, <3>1
    <2>3. Is(f)
      BY <2>1, <2>2
    <2> HIDE DEF Is
    <2> QED BY <2>3
  <1>4. Worth(N) = u
    BY Zenon DEF Worth
  <1>5. Recurses(u, Nat, 1, G, N)
    <2> HIDE DEF u
    <2>1. u = [k \in 0..N |-> u[k]] /\ u[0] = 1
      BY <1>3
    <2>2. ASSUME NEW k \in 1..N, u[k - 1] \in Nat
          PROVE  u[k] = G[<<k, u[k - 1]>>]
      BY <1>3, <2>2
    <2>3. 1 \in Nat
      OBVIOUS
    <2> HIDE DEF G, Is
    <2> QED BY <1>1, <2>1, <2>2, <2>3, RecurrenceHolds
  <1> HIDE DEF u
  <1>6. u \in [0..N -> Nat]
    BY <1>5 DEF Recurses
  <1>7. u[0] = 1 /\ \A k \in 1..N : u[k] = u[k - 1] * Radix
    BY <1>3
  <1> HIDE DEF Is, G
  <1> QED BY <1>4, <1>6, <1>7

\* The sums Spelled goes through, from the first byte to the last.
LEMMA SpelledGoes ==
    ASSUME NEW w \in Seq(Byte)
    PROVE  \E s \in [0..Len(w) -> Nat] :
              /\ s[0] = 0
              /\ \A k \in 1..Len(w) :
                    s[k] = s[k - 1] + w[k] * Worth(Len(w))[k - 1]
              /\ Spelled(w) = s[Len(w)]
  <1> DEFINE N == Len(w)
             W == Worth(N)
             G == [p \in (1..N) \X Nat |-> p[2] + w[p[1]] * W[p[1] - 1]]
             Is(h) == h = [k \in 0..N |->
                             IF k = 0 THEN 0 ELSE h[k - 1] + w[k] * W[k - 1]]
             sum == CHOOSE h : Is(h)
  <1>1. N \in Nat /\ \A k \in 1..N : w[k] \in Nat
    BY SizesAssumption DEF Byte
  <1>2. Spelled(w) = sum[N]
    BY Zenon DEF Spelled
  <1> HIDE DEF N
  <1>3. W \in [0..N -> Nat]
    BY <1>1, WorthGoes
  <1> HIDE DEF W
  <1>4. G \in [(1..N) \X Nat -> Nat]
    <2>1. ASSUME NEW v \in Nat, NEW k \in 1..N
          PROVE  v + w[k] * W[k - 1] \in Nat
      <3>1. w[k] \in Nat /\ W[k - 1] \in Nat
        BY <1>1, <1>3
      <3>2. w[k] * W[k - 1] \in Nat
        BY <3>1
      <3> QED BY <3>2
    <2> QED BY <2>1
  <1>5. PICK f : Recurses(f, Nat, 0, G, N)
    <2> HIDE DEF G
    <2>1. 0 \in Nat /\ N \in Nat
      BY <1>1
    <2> QED BY <1>4, <2>1, RecursionExists, Zenon
  <1>6. Is(sum)
    <2>1. /\ f \in [0..N -> Nat] /\ f[0] = 0
          /\ \A k \in 1..N : f[k] = G[<<k, f[k - 1]>>]
      <3> HIDE DEF G
      <3> QED BY <1>5 DEF Recurses
    <2>2. ASSUME NEW k \in 1..N
          PROVE  f[k] = f[k - 1] + w[k] * W[k - 1]
      <3>1. f[k - 1] \in Nat
        BY <1>1, <2>1
      <3> QED BY <2>1, <3>1
    <2>3. Is(f)
      BY <1>1, <2>1, <2>2
    <2> HIDE DEF Is
    <2> QED BY <2>3
  <1>7. Recurses(sum, Nat, 0, G, N)
    <2> HIDE DEF sum
    <2>1. sum = [k \in 0..N |-> sum[k]] /\ sum[0] = 0
      BY <1>1, <1>6
    <2>2. ASSUME NEW k \in 1..N, sum[k - 1] \in Nat
          PROVE  sum[k] = G[<<k, sum[k - 1]>>]
      BY <1>1, <1>6, <2>2
    <2> HIDE DEF G, Is
    <2> QED BY <1>1, <1>4, <2>1, <2>2, RecurrenceHolds
  <1> HIDE DEF sum
  <1>8. sum \in [0..N -> Nat]
    BY <1>7 DEF Recurses
  <1>9. sum[0] = 0 /\ \A k \in 1..N : sum[k] = sum[k - 1] + w[k] * W[k - 1]
    BY <1>1, <1>6
  <1> HIDE DEF Is, G
  <1> QED BY <1>2, <1>8, <1>9 DEF N, W

\* A byte moves from the number that is left to the sum.
LEMMA ByteMoves ==
    ASSUME NEW v \in Nat, NEW b \in Nat, NEW R \in Nat, NEW c \in Nat, NEW s \in Nat
    PROVE  (v * R + b) * c + s = v * (c * R) + (s + b * c)
  <1>1. (v * R + b) * c = v * (c * R) + b * c
    OBVIOUS
  <1> QED BY <1>1

\* Reading a step from its last byte to its first gives what the places of its
\* bytes say, for every width of a step and every radix: the first byte of a step
\* is the least significant one.
THEOREM FirstByteIsLeast == \A w \in Seq(Byte) : LittleEndian(w) = Spelled(w)
  <1> SUFFICES ASSUME NEW w \in Seq(Byte)
               PROVE  LittleEndian(w) = Spelled(w)
    OBVIOUS
  <1> DEFINE N == Len(w)
             W == Worth(N)
  <1>1. PICK v \in [0..N -> Nat] :
           /\ v[0] = 0
           /\ \A k \in 1..N : v[k] = v[k - 1] * Radix + w[N + 1 - k]
           /\ LittleEndian(w) = v[N]
    BY LittleEndianGoes
  <1>2. PICK s \in [0..N -> Nat] :
           /\ s[0] = 0
           /\ \A k \in 1..N : s[k] = s[k - 1] + w[k] * W[k - 1]
           /\ Spelled(w) = s[N]
    BY SpelledGoes
  <1>3. N \in Nat /\ Radix \in Nat /\ \A k \in 1..N : w[k] \in Nat
    BY SizesAssumption DEF Byte
  <1> HIDE DEF N
  <1>4. /\ W \in [0..N -> Nat] /\ W[0] = 1
        /\ \A k \in 1..N : W[k] = W[k - 1] * Radix
    BY <1>3, WorthGoes
  <1> HIDE DEF W
  <1> DEFINE T == {k \in 0..N : v[N - k] * W[k] + s[k] = v[N]}
  <1>5. 0 \in T
    <2>1. N - 0 = N /\ v[N] \in Nat /\ v[N] * 1 + 0 = v[N]
      BY <1>1, <1>3
    <2> QED BY <1>2, <1>3, <1>4, <2>1
  <1>6. ASSUME NEW k \in 1..N, k - 1 \in T
        PROVE  k \in T
    <2>1. /\ k - 1 \in 0..N /\ N - k \in 0..N /\ N - (k - 1) \in 1..N
          /\ (N - (k - 1)) - 1 = N - k /\ N + 1 - (N - (k - 1)) = k
      BY <1>3
    <2>2. v[N - (k - 1)] = v[N - k] * Radix + w[k]
      BY <1>1, <2>1
    <2>3. v[N - k] \in Nat /\ w[k] \in Nat /\ W[k - 1] \in Nat /\ s[k - 1] \in Nat
      BY <1>1, <1>2, <1>3, <1>4, <2>1
    <2>4. (v[N - k] * Radix + w[k]) * W[k - 1] + s[k - 1] = v[N]
      BY <1>6, <2>2
    <2>5. v[N - k] * (W[k - 1] * Radix) + (s[k - 1] + w[k] * W[k - 1]) = v[N]
      <3> DEFINE x == v[N - k]
                 b == w[k]
                 c == W[k - 1]
                 t == s[k - 1]
      <3>1. x \in Nat /\ b \in Nat /\ c \in Nat /\ t \in Nat
        BY <2>3
      <3>2. (x * Radix + b) * c + t = v[N]
        BY <2>4
      <3> HIDE DEF x, b, c, t
      <3>3. (x * Radix + b) * c + t = x * (c * Radix) + (t + b * c)
        BY <1>3, <3>1, ByteMoves
      <3>4. x * (c * Radix) + (t + b * c) = v[N]
        BY <3>2, <3>3, Zenon
      <3> QED BY <3>4, Zenon DEF x, b, c, t
    <2>6. v[N - k] * W[k] + s[k] = v[N]
      BY <1>2, <1>4, <2>5
    <2> QED BY <2>6
  <1> HIDE DEF T
  <1>7. N \in T
    <2>1. \A k \in 0..N : k \in T
      BY <1>3, <1>5, <1>6, BoundedInduction, Zenon
    <2> QED BY <1>3, <2>1
  <1>8. v[0] * W[N] + s[N] = v[N]
    <2>1. N - N = 0
      BY <1>3
    <2> QED BY <1>7, <2>1 DEF T
  <1>9. 0 * W[N] + s[N] = s[N]
    <2>1. W[N] \in Nat /\ s[N] \in Nat
      BY <1>2, <1>3, <1>4
    <2> HIDE DEF W
    <2> QED BY <2>1
  <1> QED BY <1>1, <1>2, <1>8, <1>9

-----------------------------------------------------------------------------
(* What is read, shown and returned *)

\* What a request begins with.
LEMMA NothingRead ==
    /\ 0 \in Byte /\ 0 \in Nat /\ 1 \in Nat
    /\ <<>> \in Seq(Byte) /\ <<>> \in Seq(Seq(Byte)) /\ <<>> \in Seq(Nat)
    /\ Len(<<>>) <= MaxSteps
  BY SizesAssumption DEF Byte

\* Whatever drops a request leaves nothing of it.
LEMMA DropKeeps ==
    ASSUME Drop
    PROVE  AddressInv'
  <1>1. TypeOK'
    BY NothingRead DEF Drop, Clear, TypeOK, Idle
  <1>2. AnswerInv' /\ AnswerMatchesRequest'
    BY DEF Drop, Clear, AnswerInv, AnswerMatchesRequest, Reading, Asking
  <1> QED BY <1>1, <1>2 DEF AddressInv

\* Neither does the request before a START leave anything to the new one.
LEMMA BeginKeeps ==
    ASSUME NEW param \in Params, NEW prompt \in BOOLEAN, Begin(param, prompt)
    PROVE  AddressInv'
  <1>1. request' \in Request /\ request' # NoRequest
    BY NoAddressRequestAssumption DEF Begin, Request
  <1>2. cursor' \in Seq(Seq(Byte))
    BY ParamsAssumption DEF Begin
  <1>3. TypeOK'
    BY <1>1, <1>2, NothingRead DEF Begin, Clear, TypeOK, Idle, Busy, Reading
  <1>4. AnswerInv' /\ AnswerMatchesRequest'
    BY DEF Begin, Clear, AnswerInv, AnswerMatchesRequest, Reading, Asking
  <1> QED BY <1>3, <1>4 DEF AddressInv

\* A block adds bytes to read, and nothing else.
LEMMA FetchKeeps ==
    ASSUME AddressInv, NEW block \in Blocks, Fetch(block)
    PROVE  AddressInv'
  <1>1. block.data \in Seq(Byte) /\ block.next \in Seq(Seq(Byte))
    BY AddressBlocksAssumption
  <1>2. TypeOK'
    BY <1>1 DEF Fetch, AddressInv, TypeOK
  <1>3. AnswerInv' /\ AnswerMatchesRequest'
    BY DEF Fetch, AddressInv, AnswerInv, AnswerMatchesRequest
  <1> QED BY <1>2, <1>3 DEF AddressInv

\* A byte read is a byte, and one less is left of the block.
LEMMA ByteRead ==
    ASSUME TypeOK, unread # <<>>
    PROVE  Head(unread) \in Byte /\ Tail(unread) \in Seq(Byte) /\ Byte \subseteq Nat
  BY SizesAssumption DEF TypeOK, Byte

LEMMA ReadCountKeeps ==
    ASSUME AddressInv, ReadCount
    PROVE  AddressInv'
  <1>1. TypeOK /\ AnswerInv
    BY DEF AddressInv
  <1>2. Head(unread) \in Byte /\ Tail(unread) \in Seq(Byte) /\ Byte \subseteq Nat
    BY <1>1, ByteRead DEF ReadCount
  <1>3. pc' \in {"check", "steps"} /\ (pc' = "steps" => left' # 0)
    BY DEF ReadCount
  <1>4. TypeOK'
    BY <1>1, <1>2, <1>3 DEF ReadCount, TypeOK, Idle, Busy, Reading
  <1>5. AnswerInv' /\ AnswerMatchesRequest'
    BY <1>1, <1>2, <1>3, <1>4
    DEF ReadCount, TypeOK, AnswerInv, AnswerMatchesRequest, Reading, Asking
  <1> QED BY <1>4, <1>5 DEF AddressInv

LEMMA ReadByteKeeps ==
    ASSUME AddressInv, ReadByte
    PROVE  AddressInv'
  <1>1. TypeOK /\ AnswerInv
    BY DEF AddressInv
  <1>2. Head(unread) \in Byte /\ Tail(unread) \in Seq(Byte)
    BY <1>1, ByteRead DEF ReadByte
  <1>3. word' \in Seq(Byte)
    BY <1>1, <1>2 DEF ReadByte, TypeOK
  <1>4. TypeOK'
    BY <1>1, <1>2, <1>3 DEF ReadByte, TypeOK
  <1>5. AnswerInv' /\ AnswerMatchesRequest'
    BY <1>1 DEF ReadByte, AnswerInv, AnswerMatchesRequest
  <1> QED BY <1>4, <1>5 DEF AddressInv

LEMMA ReadStepKeeps ==
    ASSUME AddressInv, ReadStep
    PROVE  AddressInv'
  <1>1. TypeOK /\ AnswerInv
    BY DEF AddressInv
  <1>2. Head(unread) \in Byte /\ Tail(unread) \in Seq(Byte)
    BY <1>1, ByteRead DEF ReadStep
  <1>3. CASE Full
    BY <1>3, DropKeeps DEF ReadStep
  <1>4. CASE ~Full
    <2> DEFINE value == LittleEndian(Append(word, Head(unread)))
    <2>1. value \in Nat
      <3>1. Append(word, Head(unread)) \in Seq(Byte)
        BY <1>1, <1>2 DEF TypeOK
      <3> QED BY <3>1, LittleEndianType
    <2>2. path' \in Seq(Nat) /\ Len(path') <= MaxSteps
      <3>1. path \in Seq(Nat) /\ Len(path) <= MaxSteps /\ Len(path) # MaxSteps
        BY <1>1, <1>4 DEF TypeOK, Full
      <3>2. path' = Append(path, value)
        BY <1>4 DEF ReadStep
      <3> HIDE DEF value
      <3>3. Len(path') = Len(path) + 1
        BY <2>1, <3>1, <3>2
      <3>4. Len(path) \in Nat
        BY <3>1
      <3> QED BY <2>1, <3>1, <3>2, <3>3, <3>4, SizesAssumption
    <2>3. word' \in Seq(Byte)
      BY <1>4, NothingRead DEF ReadStep
    <2>4. pc = "steps" /\ left > 0 /\ left' = left - 1
      BY <1>1, <1>4 DEF ReadStep, AnswerInv
    <2>5. left' \in Byte
      BY <1>1, <2>4, SizesAssumption DEF TypeOK, Byte
    <2>6. pc' \in {"check", "steps"} /\ (pc' = "steps" => left' # 0)
      BY <1>4 DEF ReadStep
    <2>7. shown' = NoResult.address /\ result' = NoResult
      BY <1>1, <1>4, <2>4 DEF ReadStep, AnswerInv, Reading
    <2>8. TypeOK'
      BY <1>1, <1>2, <1>4, <2>2, <2>3, <2>4, <2>5, <2>6, <2>7
      DEF ReadStep, TypeOK, Idle, Busy, Reading
    <2>9. AnswerInv' /\ AnswerMatchesRequest'
      BY <2>5, <2>6, <2>7, SizesAssumption
      DEF AnswerInv, AnswerMatchesRequest, Reading, Asking, Byte
    <2> QED BY <2>8, <2>9 DEF AddressInv
  <1> QED BY <1>3, <1>4

LEMMA CheckPrefixKeeps ==
    ASSUME AddressInv, CheckPrefix
    PROVE  AddressInv'
  <1>1. CASE ~UnderPrefix(path)
    BY <1>1, DropKeeps DEF CheckPrefix
  <1>2. CASE UnderPrefix(path)
    <2>1. UnderPrefix(path)'
      BY <1>2 DEF CheckPrefix, At, readVars, UnderPrefix
    <2>2. TypeOK'
      BY <1>2 DEF CheckPrefix, At, readVars, AddressInv, TypeOK, Idle, Busy
    <2>3. AnswerInv' /\ AnswerMatchesRequest'
      BY <1>2, <2>1
      DEF CheckPrefix, At, readVars, AddressInv, AnswerInv, AnswerMatchesRequest,
          Reading, Asking
    <2> QED BY <2>2, <2>3 DEF AddressInv
  <1> QED BY <1>1, <1>2

\* From here on the path is fixed, and stays under the prefix.
LEMMA DeriveKeeps ==
    ASSUME AddressInv, Derive
    PROVE  AddressInv'
  <1>1. TypeOK /\ AnswerInv /\ pc = "derive" /\ path' = path /\ request' = request
    BY DEF AddressInv, Derive, At, readVars
  <1>2. pc' = IF request.prompt THEN "provide" ELSE "result"
    BY DEF Derive, At
  <1>3. request \in Request
    BY <1>1 DEF TypeOK
  <1>4. UnderPrefix(path)'
    BY <1>1 DEF AnswerInv, UnderPrefix
  <1>5. TypeOK'
    BY <1>1, <1>2 DEF Derive, At, readVars, TypeOK, Idle, Busy, Asking
  <1>6. AnswerInv' /\ AnswerMatchesRequest'
    BY <1>1, <1>2, <1>3, <1>4
    DEF Derive, At, readVars, AnswerInv, AnswerMatchesRequest, Reading, Asking,
        Request
  <1> QED BY <1>5, <1>6 DEF AddressInv

LEMMA PromptsKeep ==
    ASSUME AddressInv, NEW answer \in BOOLEAN,
           PromptProvide(answer) \/ PromptAddress(answer) \/ PromptConfirm(answer)
    PROVE  AddressInv'
  <1>1. TypeOK /\ AnswerInv /\ pc \in Asking /\ path' = path /\ request' = request
    BY DEF AddressInv, PromptProvide, PromptAddress, PromptConfirm, readVars, Asking
  <1>2. UnderPrefix(path)' /\ request.prompt = TRUE
    BY <1>1 DEF AnswerInv, UnderPrefix
  <1>3. declined' \in BOOLEAN
    BY <1>1 DEF TypeOK, PromptProvide, PromptAddress, PromptConfirm
  <1>4. shown' \in {NoResult.address, AddressOf(path)}
    BY <1>1 DEF TypeOK, PromptProvide, PromptAddress, PromptConfirm
  <1>5. pc' \in {"address", "confirm", "result"}
    BY DEF PromptProvide, PromptAddress, PromptConfirm
  <1>6. TypeOK'
    BY <1>1, <1>3, <1>4, <1>5
    DEF PromptProvide, PromptAddress, PromptConfirm, readVars, TypeOK, Idle, Busy,
        Asking, Reading, AddressOf, KeyOf
  <1>7. AnswerInv' /\ AnswerMatchesRequest'
    BY <1>1, <1>2
    DEF PromptProvide, PromptAddress, PromptConfirm, AnswerInv,
        AnswerMatchesRequest, Reading, Asking, AddressOf, KeyOf
  <1> QED BY <1>6, <1>7 DEF AddressInv

LEMMA AnswerKeeps ==
    ASSUME AddressInv, Answer
    PROVE  AddressInv'
  <1>1. TypeOK /\ AnswerInv /\ pc = "result" /\ path' = path
    BY DEF AddressInv, Answer, readVars
  <1>2. UnderPrefix(path)'
    BY <1>1 DEF AnswerInv, UnderPrefix
  <1>3. TypeOK'
    BY <1>1 DEF Answer, readVars, TypeOK, Idle, Busy, AddressOf, KeyOf
  <1>4. AnswerInv' /\ AnswerMatchesRequest'
    BY <1>1, <1>2
    DEF Answer, readVars, AnswerInv, AnswerMatchesRequest, Reading, Asking,
        AddressOf, KeyOf
  <1> QED BY <1>3, <1>4 DEF AddressInv

LEMMA StutterKeeps ==
    ASSUME AddressInv, UNCHANGED vars
    PROVE  AddressInv'
  BY DEF vars, readVars, AddressInv, TypeOK, AnswerInv, AnswerMatchesRequest,
         UnderPrefix

-----------------------------------------------------------------------------
(* The stream of bytes *)

\* The bytes of a request are bytes.
LEMMA BytesType ==
    ASSUME request \in Request
    PROVE  Bytes \in Seq(Byte)
  <1>1. request.param \in Seq(Seq(Byte))
    BY ParamsAssumption DEF Request
  <1> QED BY <1>1, FlattenType DEF Bytes

LEMMA RestType ==
    ASSUME TypeOK
    PROVE  Rest \in Seq(Byte) /\ FlattenSeq(cursor) \in Seq(Byte)
  <1>1. FlattenSeq(cursor) \in Seq(Byte)
    BY FlattenType DEF TypeOK
  <1> QED BY <1>1 DEF TypeOK, Rest

\* Nothing is to be shown of a request that is gone.
LEMMA DropKeepsStream ==
    ASSUME Drop
    PROVE  StreamInv'
  BY DEF Drop, StreamInv, CutIndependent, Reading, Asking

\* A request begins with all of its bytes.
LEMMA BeginKeepsStream ==
    ASSUME NEW param \in Params, NEW prompt \in BOOLEAN, Begin(param, prompt)
    PROVE  StreamInv'
  <1> DEFINE bytes == FlattenSeq(param)
  <1>1. bytes \in Seq(Byte)
    BY ParamsAssumption, FlattenType
  <1>2. pc' = "count" /\ request'.param = param /\ cursor' = param
    BY DEF Begin
  <1>3. unread' = <<>> /\ path' = <<>> /\ word' = <<>>
    BY DEF Begin, Clear
  <1>4. Bytes' = bytes /\ Taken' = 0
    BY <1>2 DEF Bytes, Taken
  <1>5. Rest' = bytes
    <2>1. Rest' = <<>> \o bytes
      BY <1>2, <1>3 DEF Rest
    <2> HIDE DEF bytes
    <2> QED BY <1>1, <2>1
  <1> HIDE DEF bytes
  <1>6. /\ Taken' + Len(Rest') = Len(Bytes')
        /\ \A i \in 1..Len(Rest') : Rest'[i] = Bytes'[Taken' + i]
    BY <1>1, <1>4, <1>5
  <1> QED BY <1>2, <1>3, <1>6 DEF StreamInv, CutIndependent, Reading, Asking

\* A block only moves bytes from the chain to what is read next.
LEMMA FetchMovesBytes ==
    ASSUME TypeOK, NEW block \in Blocks, Fetch(block)
    PROVE  Rest' = Rest
  <1>1. block.data \in Seq(Byte) /\ block.next \in Seq(Seq(Byte))
    BY AddressBlocksAssumption
  <1>2. /\ unread = <<>> /\ cursor = <<block.data>> \o block.next
        /\ unread' = block.data /\ cursor' = block.next
    BY DEF Fetch, Waiting
  <1>3. FlattenSeq(cursor) = block.data \o FlattenSeq(block.next)
    <2> DEFINE d == block.data
               n == block.next
    <2>1. d \in Seq(Byte) /\ n \in Seq(Seq(Byte))
      BY <1>1
    <2> HIDE DEF d, n
    <2>2. FlattenSeq(<<d>> \o n) = d \o FlattenSeq(n)
      BY <2>1, FlattenHead
    <2> QED BY <1>2, <2>2 DEF d, n
  <1>4. Rest = FlattenSeq(cursor)
    <2>1. FlattenSeq(cursor) \in Seq(Byte)
      BY RestType
    <2>2. Rest = <<>> \o FlattenSeq(cursor)
      BY <1>2 DEF Rest
    <2> QED BY <2>1, <2>2
  <1> QED BY <1>2, <1>3, <1>4 DEF Rest

LEMMA FetchKeepsStream ==
    ASSUME TypeOK, StreamInv, NEW block \in Blocks, Fetch(block)
    PROVE  StreamInv'
  <1>1. UNCHANGED <<pc, request, left, word, path>> /\ pc \in Reading
    BY DEF Fetch, Waiting
  <1>2. Rest' = Rest /\ Taken' = Taken /\ Bytes' = Bytes
    BY <1>1, FetchMovesBytes DEF Taken, Bytes
  <1>3. \A k : StepIn(Bytes', k) = StepIn(Bytes, k)
    BY <1>2
  <1> QED BY <1>1, <1>2, <1>3
          DEF StreamInv, CutIndependent, Committed, PathIn, Reading, Asking

\* One byte less is left, and it was the first.
LEMMA RestMoves ==
    ASSUME TypeOK, unread # <<>>, unread' = Tail(unread), cursor' = cursor
    PROVE  /\ Len(Rest) > 0 /\ Head(unread) = Rest[1]
           /\ Len(Rest') = Len(Rest) - 1
           /\ \A i \in 1..Len(Rest') : Rest'[i] = Rest[i + 1]
  <1> DEFINE u == unread
             v == FlattenSeq(cursor)
  <1>1. u \in Seq(Byte) /\ v \in Seq(Byte) /\ u # <<>>
    BY RestType DEF TypeOK
  <1>2. Rest = u \o v /\ Rest' = Tail(u) \o v
    BY DEF Rest
  <1> HIDE DEF u, v
  <1>3. /\ Len(u \o v) > 0 /\ Head(u) = (u \o v)[1]
        /\ Len(Tail(u) \o v) = Len(u \o v) - 1
        /\ \A i \in 1..Len(Tail(u) \o v) : (Tail(u) \o v)[i] = (u \o v)[i + 1]
    <2>1. Len(u) \in Nat /\ Len(u) > 0 /\ Len(v) \in Nat
      BY <1>1
    <2>2. /\ Tail(u) \in Seq(Byte) /\ Len(Tail(u)) = Len(u) - 1
          /\ \A i \in 1..Len(Tail(u)) : Tail(u)[i] = u[i + 1]
      BY <1>1
    <2>3. Len(u \o v) = Len(u) + Len(v) /\ Len(Tail(u) \o v) = Len(u) - 1 + Len(v)
      BY <1>1, <2>1, <2>2
    <2>4. ASSUME NEW i \in 1..Len(Tail(u) \o v)
          PROVE  (Tail(u) \o v)[i] = (u \o v)[i + 1]
      <3>1. i + 1 \in 1..(Len(u) + Len(v)) /\ i \in 1..(Len(u) - 1 + Len(v))
        BY <2>1, <2>3
      <3>2. CASE i <= Len(u) - 1
        <4>1. i \in 1..Len(Tail(u))
          BY <2>1, <2>2, <3>1, <3>2
        <4>2. (Tail(u) \o v)[i] = Tail(u)[i]
          BY <1>1, <2>2, <4>1
        <4>3. (u \o v)[i + 1] = u[i + 1]
          BY <1>1, <2>1, <3>1, <3>2
        <4> QED BY <2>2, <4>1, <4>2, <4>3
      <3>3. CASE ~(i <= Len(u) - 1)
        <4>1. (Tail(u) \o v)[i] = v[i - Len(Tail(u))]
          BY <1>1, <2>1, <2>2, <2>3, <3>1, <3>3
        <4>2. (u \o v)[i + 1] = v[i + 1 - Len(u)]
          BY <1>1, <2>1, <2>3, <3>1, <3>3
        <4>3. i - Len(Tail(u)) = i + 1 - Len(u)
          BY <2>1, <2>2, <3>1
        <4> QED BY <4>1, <4>2, <4>3
      <3> QED BY <3>2, <3>3
    <2>5. Len(u \o v) > 0 /\ Head(u) = (u \o v)[1]
      BY <1>1, <2>1, <2>3
    <2> QED BY <2>1, <2>3, <2>4, <2>5
  <1> QED BY <1>2, <1>3 DEF u

\* A byte that is taken is the next of the parameter, and the stream goes on
\* behind it.
LEMMA ByteTaken ==
    ASSUME TypeOK, StreamInv, pc \in Reading, unread # <<>>,
           unread' = Tail(unread), UNCHANGED <<cursor, request>>
    PROVE  /\ Bytes' = Bytes /\ Bytes \in Seq(Byte)
           /\ Taken \in Nat /\ Taken < Len(Bytes) /\ Head(unread) = Bytes[Taken + 1]
           /\ Taken' = Taken + 1 =>
                 /\ Taken' + Len(Rest') = Len(Bytes')
                 /\ \A i \in 1..Len(Rest') : Rest'[i] = Bytes'[Taken' + i]
  <1>1. request \in Request
    BY DEF TypeOK, Reading
  <1>2. Bytes' = Bytes /\ Bytes \in Seq(Byte)
    BY <1>1, BytesType DEF Bytes
  <1>3. Taken \in Nat
    <2>1. Len(path) \in Nat /\ Len(word) \in Nat /\ StepBytes \in Nat
      BY SizesAssumption DEF TypeOK
    <2>2. StepBytes * Len(path) \in Nat
      BY <2>1
    <2> QED BY <2>1, <2>2 DEF Taken
  <1>4. /\ Taken + Len(Rest) = Len(Bytes)
        /\ \A i \in 1..Len(Rest) : Rest[i] = Bytes[Taken + i]
    BY DEF StreamInv
  <1>5. /\ Len(Rest) > 0 /\ Head(unread) = Rest[1]
        /\ Len(Rest') = Len(Rest) - 1
        /\ \A i \in 1..Len(Rest') : Rest'[i] = Rest[i + 1]
    BY RestMoves
  <1> DEFINE n == Len(Rest)
             t == Taken
             l == Len(Bytes)
  <1>6. n \in Nat /\ l \in Nat /\ t \in Nat /\ t + n = l /\ n > 0
    BY <1>2, <1>3, <1>4, <1>5, RestType
  <1>7. Taken < Len(Bytes) /\ Head(unread) = Bytes[Taken + 1]
    <2>1. 1 \in 1..n
      BY <1>6
    <2>2. Rest[1] = Bytes[Taken + 1]
      BY <1>4, <2>1
    <2>3. t < l
      <3> HIDE DEF n, t, l
      <3> QED BY <1>6
    <2> QED BY <1>5, <2>2, <2>3
  <1>8. ASSUME Taken' = Taken + 1
        PROVE  /\ Taken' + Len(Rest') = Len(Bytes')
               /\ \A i \in 1..Len(Rest') : Rest'[i] = Bytes'[Taken' + i]
    <2>1. (t + 1) + (n - 1) = l
      <3> HIDE DEF n, t, l
      <3> QED BY <1>6
    <2>2. Taken' + Len(Rest') = Len(Bytes')
      BY <1>2, <1>5, <1>8, <2>1
    <2>3. ASSUME NEW i \in 1..Len(Rest')
          PROVE  Rest'[i] = Bytes'[Taken' + i]
      <3>1. i + 1 \in 1..n /\ t + (i + 1) = (t + 1) + i
        <4>1. i \in 1..(n - 1)
          BY <1>5, <2>3
        <4> HIDE DEF n, t, l
        <4> QED BY <1>6, <4>1
      <3>2. Rest[i + 1] = Bytes[t + (i + 1)]
        BY <1>4, <3>1
      <3> QED BY <1>2, <1>5, <1>8, <3>1, <3>2
    <2> QED BY <2>2, <2>3
  <1> QED BY <1>2, <1>3, <1>7, <1>8

\* The count is the first byte.
LEMMA ReadCountKeepsStream ==
    ASSUME TypeOK, StreamInv, ReadCount
    PROVE  StreamInv'
  <1>1. /\ pc = "count" /\ unread # <<>> /\ unread' = Tail(unread)
        /\ left' = Head(unread) /\ UNCHANGED <<request, cursor, word, path>>
        /\ pc' \in {"check", "steps"} /\ (pc' = "check" => left' = 0)
    BY DEF ReadCount
  <1>2. path' = <<>> /\ word' = <<>>
    BY <1>1 DEF StreamInv
  <1>3. Taken = 0
    BY <1>1 DEF Taken
  <1>4. Taken' = 1
    <2>1. Len(path') = 0 /\ Len(word') = 0 /\ StepBytes \in Nat
      BY <1>2, SizesAssumption
    <2>2. StepBytes * 0 = 0
      BY <2>1
    <2> QED BY <1>1, <2>1, <2>2 DEF Taken
  <1>5. /\ Bytes' = Bytes /\ Bytes \in Seq(Byte) /\ 0 < Len(Bytes)
        /\ Head(unread) = Bytes[1]
        /\ Taken' + Len(Rest') = Len(Bytes')
        /\ \A i \in 1..Len(Rest') : Rest'[i] = Bytes'[Taken' + i]
    BY <1>1, <1>3, <1>4, ByteTaken DEF Reading
  <1>6. Head(Bytes') = left' /\ left' \in Nat
    <2>1. Head(Bytes) = Bytes[1] /\ Bytes[1] \in Byte
      BY <1>5
    <2> QED BY <1>1, <1>5, <2>1, SizesAssumption DEF Byte
  <1>7. CASE pc' = "steps"
    <2>1. Len(path') + left' = Head(Bytes') /\ Len(word') < StepBytes
      BY <1>2, <1>6, SizesAssumption
    <2>2. /\ \A j \in 1..Len(word') :
                word'[j] = Bytes'[1 + StepBytes * Len(path') + j]
          /\ \A k \in 1..Len(path') : path'[k] = StepIn(Bytes, k)'
      BY <1>2
    <2> QED BY <1>5, <1>7, <2>1, <2>2 DEF StreamInv, CutIndependent, Reading, Asking
  <1>8. CASE pc' = "check"
    <2>1. Head(Bytes') = 0
      BY <1>1, <1>6, <1>8
    <2>2. Committed' = <<>>
      BY <2>1 DEF Committed, PathIn
    <2> QED BY <1>2, <1>8, <2>2 DEF StreamInv, CutIndependent, Reading, Asking
  <1> QED BY <1>1, <1>7, <1>8

LEMMA ReadByteKeepsStream ==
    ASSUME TypeOK, StreamInv, ReadByte
    PROVE  StreamInv'
  <1>1. /\ pc = "steps" /\ pc' = pc /\ unread # <<>> /\ unread' = Tail(unread)
        /\ word' = Append(word, Head(unread)) /\ Len(word) + 1 # StepBytes
        /\ UNCHANGED <<request, cursor, left, path>>
    BY DEF ReadByte, LastByte
  <1> DEFINE n == Len(word)
             m == StepBytes * Len(path)
             b == Head(unread)
  <1>2. n \in Nat /\ m \in Nat /\ word \in Seq(Byte) /\ b \in Byte
    <2>1. Len(path) \in Nat /\ StepBytes \in Nat
      BY SizesAssumption DEF TypeOK
    <2>2. m \in Nat
      BY <2>1
    <2> QED BY <1>1, <2>2, ByteRead DEF TypeOK
  <1>3. Taken = 1 + m + n
    BY <1>1 DEF Taken
  <1>4. /\ Len(word') = n + 1 /\ word'[n + 1] = b
        /\ \A j \in 1..n : word'[j] = word[j]
    <2> HIDE DEF b
    <2> QED BY <1>1, <1>2 DEF b
  <1>5. Taken' = Taken + 1
    <2>1. Taken' = 1 + m + (n + 1)
      BY <1>1, <1>4 DEF Taken
    <2> HIDE DEF n, m
    <2> QED BY <1>2, <1>3, <2>1
  <1>6. /\ Bytes' = Bytes /\ b = Bytes[Taken + 1]
        /\ Taken' + Len(Rest') = Len(Bytes')
        /\ \A i \in 1..Len(Rest') : Rest'[i] = Bytes'[Taken' + i]
    BY <1>1, <1>5, ByteTaken DEF Reading
  <1>7. /\ Len(path) + left = Head(Bytes) /\ n < StepBytes
        /\ \A j \in 1..n : word[j] = Bytes[1 + m + j]
        /\ \A k \in 1..Len(path) : path[k] = StepIn(Bytes, k)
    BY <1>1 DEF StreamInv
  <1>8. n + 1 < StepBytes
    <2>1. n + 1 # StepBytes
      BY <1>1
    <2> HIDE DEF n
    <2> QED BY <1>2, <1>7, <2>1, SizesAssumption
  <1>9. ASSUME NEW j \in 1..(n + 1)
        PROVE  word'[j] = Bytes[1 + m + j]
    <2>1. CASE j = n + 1
      <3>1. Taken + 1 = 1 + m + j
        <4> HIDE DEF n, m
        <4> QED BY <1>2, <1>3, <2>1
      <3> QED BY <1>4, <1>6, <2>1, <3>1
    <2>2. CASE j # n + 1
      <3>1. j \in 1..n
        <4> HIDE DEF n, m
        <4> QED BY <1>2, <2>2
      <3> QED BY <1>4, <1>7, <3>1
    <2> QED BY <2>1, <2>2
  <1> HIDE DEF b
  <1> QED BY <1>1, <1>4, <1>6, <1>7, <1>8, <1>9
          DEF StreamInv, CutIndependent, Reading, Asking, StepIn

\* The bytes of a step and its last one are those at its place.
LEMMA StepComplete ==
    ASSUME NEW bytes \in Seq(Byte), NEW w \in Seq(Byte), NEW b \in Byte, NEW k \in Nat,
           Len(w) + 1 = StepBytes,
           \A j \in 1..Len(w) : w[j] = bytes[1 + StepBytes * k + j],
           b = bytes[1 + StepBytes * k + StepBytes],
           1 + StepBytes * k + StepBytes <= Len(bytes)
    PROVE  LittleEndian(Append(w, b)) = StepIn(bytes, k + 1)
  <1> DEFINE m == StepBytes * k
             a == 2 + StepBytes * ((k + 1) - 1)
             z == 1 + StepBytes * (k + 1)
             n == Len(w)
  <1>1. StepBytes \in Nat /\ m \in Nat /\ n \in Nat /\ n + 1 = StepBytes
    <2>1. StepBytes \in Nat
      BY SizesAssumption
    <2> QED BY <2>1
  <1>2. a = m + 2 /\ z = 1 + m + StepBytes
    <2>1. (k + 1) - 1 = k
      OBVIOUS
    <2>2. StepBytes * (k + 1) = m + StepBytes
      BY <1>1
    <2> HIDE DEF m
    <2> QED BY <1>1, <2>1, <2>2 DEF m
  <1>3. 1 + m + StepBytes <= Len(bytes)
    OBVIOUS
  <1>4. b = bytes[1 + m + StepBytes] /\ \A j \in 1..n : w[j] = bytes[1 + m + j]
    OBVIOUS
  <1> DEFINE sub == SubSeq(bytes, m + 2, 1 + m + StepBytes)
             word1 == Append(w, b)
  <1> HIDE DEF m
  <1>5. /\ sub \in Seq(Byte) /\ Len(sub) = StepBytes
        /\ \A j \in 1..StepBytes : sub[j] = bytes[1 + m + j]
    <2>1. m + 2 \in 1..(Len(bytes) + 1) /\ 1 + m + StepBytes \in 0..Len(bytes)
      BY <1>1, <1>3
    <2>2. m + 2 \in Nat /\ 1 + m + StepBytes \in Nat /\ Len(bytes) \in Nat
      BY <1>1
    <2>3. /\ sub \in Seq(Byte)
          /\ Len(sub) = (1 + m + StepBytes) - (m + 2) + 1
          /\ \A j \in 1..((1 + m + StepBytes) - (m + 2) + 1) :
                sub[j] = bytes[(m + 2) + j - 1]
      BY <1>1, <1>3, <2>1, <2>2
    <2>4. (1 + m + StepBytes) - (m + 2) + 1 = StepBytes
      BY <1>1
    <2>5. \A j \in 1..StepBytes : (m + 2) + j - 1 = 1 + m + j
      BY <1>1
    <2> QED BY <2>3, <2>4, <2>5
  <1>6. word1 = sub
    <2>1. /\ word1 \in Seq(Byte) /\ Len(word1) = n + 1 /\ word1[n + 1] = b
          /\ \A j \in 1..n : word1[j] = w[j]
      OBVIOUS
    <2>2. ASSUME NEW j \in 1..StepBytes
          PROVE  word1[j] = sub[j]
      <3>1. CASE j = n + 1
        BY <1>1, <1>4, <1>5, <2>1, <3>1
      <3>2. CASE j # n + 1
        <4>1. j \in 1..n
          BY <1>1, <3>2
        <4> QED BY <1>4, <1>5, <2>1, <4>1
      <3> QED BY <3>1, <3>2
    <2>3. Len(word1) = StepBytes /\ Len(sub) = StepBytes
      BY <1>1, <1>5, <2>1
    <2>4. word1 \in Seq(Byte) /\ sub \in Seq(Byte)
      BY <1>5, <2>1
    <2> HIDE DEF sub, word1
    <2> QED BY <2>2, <2>3, <2>4, SeqEqual
  <1>7. LittleEndian(word1) = Spelled(sub)
    BY <1>5, <1>6, FirstByteIsLeast
  <1> QED BY <1>2, <1>7 DEF StepIn, sub, word1

LEMMA ReadStepKeepsStream ==
    ASSUME TypeOK, TypeOK', AnswerInv, StreamInv, ReadStep, ~Full
    PROVE  StreamInv'
  <1> DEFINE n == Len(word)
             l == Len(path)
             m == StepBytes * l
             b == Head(unread)
             value == LittleEndian(Append(word, b))
  <1>1. /\ pc = "steps" /\ unread # <<>> /\ unread' = Tail(unread)
        /\ path' = Append(path, value) /\ word' = <<>> /\ n + 1 = StepBytes
        /\ left' = left - 1 /\ UNCHANGED <<request, cursor>>
        /\ pc' \in {"check", "steps"} /\ (pc' = "check" => left' = 0)
    BY DEF ReadStep, LastByte
  <1>2. n \in Nat /\ l \in Nat /\ word \in Seq(Byte) /\ b \in Byte /\ path \in Seq(Nat)
    BY <1>1, ByteRead DEF TypeOK
  <1>3. StepBytes \in Nat /\ m \in Nat
    <2>1. StepBytes \in Nat
      BY SizesAssumption
    <2> QED BY <1>2, <2>1
  <1>4. Taken = 1 + m + n
    BY <1>1 DEF Taken
  <1>5. /\ path' \in Seq(Nat) /\ Len(path') = l + 1 /\ path'[l + 1] = value
        /\ \A k \in 1..l : path'[k] = path[k]
    <2>1. value \in Nat
      <3>1. Append(word, b) \in Seq(Byte)
        BY <1>2
      <3> QED BY <3>1, LittleEndianType
    <2> HIDE DEF value
    <2> QED BY <1>1, <1>2, <2>1
  <1>6. StepBytes * (l + 1) = m + StepBytes
    BY <1>2, <1>3
  <1>7. Taken' = Taken + 1
    <2>1. Len(word') = 0
      BY <1>1
    <2>2. Taken' = 1 + (m + StepBytes)
      <3>1. pc' # "count"
        BY <1>1
      <3>2. Taken' = 1 + StepBytes * (l + 1) + 0
        BY <1>5, <2>1, <3>1 DEF Taken
      <3> HIDE DEF l, m
      <3> QED BY <1>2, <1>3, <1>6, <3>2
    <2> HIDE DEF n, m
    <2> QED BY <1>1, <1>2, <1>3, <1>4, <2>2
  <1>8. /\ Bytes' = Bytes /\ Bytes \in Seq(Byte) /\ Taken < Len(Bytes)
        /\ b = Bytes[Taken + 1]
        /\ Taken' + Len(Rest') = Len(Bytes')
        /\ \A i \in 1..Len(Rest') : Rest'[i] = Bytes'[Taken' + i]
    BY <1>1, <1>7, ByteTaken DEF Reading
  <1>9. /\ l + left = Head(Bytes)
        /\ \A j \in 1..n : word[j] = Bytes[1 + m + j]
        /\ \A k \in 1..l : path[k] = StepIn(Bytes, k)
    BY <1>1 DEF StreamInv
  <1>10. value = StepIn(Bytes, l + 1)
    <2>1. Taken + 1 = 1 + m + StepBytes
      <3> HIDE DEF n, m
      <3> QED BY <1>1, <1>2, <1>3, <1>4
    <2>2. b = Bytes[1 + m + StepBytes]
      BY <1>8, <2>1
    <2>3. 1 + m + StepBytes <= Len(Bytes)
      <3>1. Len(Bytes) \in Nat
        BY <1>8
      <3> HIDE DEF n, m
      <3> QED BY <1>2, <1>3, <1>4, <1>8, <2>1, <3>1
    <2> HIDE DEF l, b
    <2> QED BY <1>1, <1>2, <1>8, <1>9, <2>2, <2>3, StepComplete DEF value
  <1>11. ASSUME NEW k \in 1..(l + 1)
         PROVE  path'[k] = StepIn(Bytes, k)
    <2>1. CASE k = l + 1
      BY <1>5, <1>10, <2>1
    <2>2. CASE k # l + 1
      <3>1. k \in 1..l
        BY <1>2, <2>2
      <3> QED BY <1>5, <1>9, <3>1
    <2> QED BY <2>1, <2>2
  <1>12. (l + 1) + left' = Head(Bytes)
    <2>1. left \in Nat
      BY SizesAssumption DEF TypeOK, Byte
    <2> HIDE DEF l
    <2> QED BY <1>1, <1>2, <1>9, <2>1
  <1>13. CASE pc' = "steps"
    <2>1. Len(word') = 0 /\ 0 < StepBytes
      BY <1>1, SizesAssumption
    <2>2. Len(path') + left' = Head(Bytes')
      BY <1>5, <1>8, <1>12
    <2>3. \A k \in 1..Len(path') : path'[k] = StepIn(Bytes, k)'
      BY <1>5, <1>8, <1>11 DEF StepIn
    <2>4. \A j \in 1..Len(word') : word'[j] = Bytes'[1 + StepBytes * Len(path') + j]
      BY <2>1
    <2>5. /\ Taken' + Len(Rest') = Len(Bytes')
          /\ \A i \in 1..Len(Rest') : Rest'[i] = Bytes'[Taken' + i]
      BY <1>8
    <2> HIDE DEF value, l, m, n, b
    <2> QED BY <1>13, <2>1, <2>2, <2>3, <2>4, <2>5
            DEF StreamInv, CutIndependent, Reading, Asking, StepIn
  <1>14. CASE pc' = "check"
    <2>1. Head(Bytes) = l + 1
      BY <1>1, <1>2, <1>12, <1>14
    <2>2. path' = [k \in 1..(l + 1) |-> StepIn(Bytes, k)]
      <3>1. path' = [k \in 1..(l + 1) |-> path'[k]]
        BY <1>2, <1>5
      <3> HIDE DEF l
      <3> QED BY <1>11, <3>1
    <2>3. Committed' = [k \in 1..(l + 1) |-> StepIn(Bytes, k)]
      BY <1>8, <2>1 DEF Committed, PathIn, StepIn
    <2> QED BY <1>14, <2>2, <2>3 DEF StreamInv, CutIndependent, Reading, Asking
  <1> QED BY <1>1, <1>13, <1>14

\* Once the path is complete nothing changes it.
LEMMA AfterPathKeepsStream ==
    ASSUME TypeOK, StreamInv, pc \notin Reading \cup {"idle"}, pc' \notin Reading,
           UNCHANGED <<request, path>>
    PROVE  StreamInv'
  <1>1. Committed' = Committed
    BY DEF Committed, PathIn, Bytes, StepIn
  <1>2. path = Committed
    BY DEF TypeOK, StreamInv, CutIndependent, Idle, Busy, Reading, Asking
  <1> QED BY <1>1, <1>2 DEF StreamInv, CutIndependent, Reading, Asking

-----------------------------------------------------------------------------
\* In every behaviour the conjunction holds: path, screen and result belong
\* together at every point of the handler.
THEOREM AddressInvariant == Spec => []AddressInv
  <1>1. Init => AddressInv
    BY NothingRead
    DEF Init, AddressInv, TypeOK, AnswerInv, AnswerMatchesRequest, Idle, Reading,
        Asking
  <1>2. AddressInv /\ [Next]_vars => AddressInv'
    <2> SUFFICES ASSUME AddressInv, [Next]_vars PROVE AddressInv'
      OBVIOUS
    <2>1. CASE HostAnswers
      BY <2>1, FetchKeeps, DropKeeps DEF HostAnswers, HostFailure
    <2>2. CASE UserAnswers
      BY <2>2, PromptsKeep DEF UserAnswers
    <2>3. CASE Handler
      BY <2>3, ReadCountKeeps, ReadByteKeeps, ReadStepKeeps, CheckPrefixKeeps,
         DeriveKeeps, AnswerKeeps, DropKeeps
      DEF Handler, EndOfChain, DeriveFails
    <2>4. CASE Environment
      BY <2>4, BeginKeeps, DropKeeps
      DEF Environment, Start, StartWithoutParams, WrongAnswer, Stop
    <2>5. CASE UNCHANGED vars
      BY <2>5, StutterKeeps
    <2> QED BY <2>1, <2>2, <2>3, <2>4, <2>5 DEF Next
  <1> QED BY <1>1, <1>2, PTL DEF Spec

\* Every variable keeps its type; in particular a path never has more steps
\* than its ArrayVec has places.
THEOREM AddressTypes == Spec => []TypeOK
  <1>1. AddressInv => TypeOK
    BY DEF AddressInv
  <1> QED BY <1>1, AddressInvariant, PTL

\* The address returned is the address shown, of the path that was read.
THEOREM SameAddress == Spec => []AnswerMatchesRequest
  <1>1. AddressInv => AnswerMatchesRequest
    BY DEF AddressInv
  <1> QED BY <1>1, AddressInvariant, PTL

\* Nothing of a parameter is lost, taken twice or out of place on its way.
THEOREM StreamInvariant == Spec => []StreamInv
  <1>1. Init => StreamInv
    BY DEF Init, StreamInv, CutIndependent, Reading, Asking
  <1>2. AddressInv /\ AddressInv' /\ StreamInv /\ [Next]_vars => StreamInv'
    <2> SUFFICES ASSUME AddressInv, AddressInv', StreamInv, [Next]_vars
                 PROVE  StreamInv'
      OBVIOUS
    <2>0. TypeOK /\ TypeOK' /\ AnswerInv
      BY DEF AddressInv
    <2>1. CASE Drop
      BY <2>1, DropKeepsStream
    <2>2. ASSUME NEW block \in Blocks, Fetch(block)
          PROVE  StreamInv'
      BY <2>0, <2>2, FetchKeepsStream
    <2>3. CASE UserAnswers \/ CheckPrefix \/ Derive \/ Answer
      BY <2>0, <2>1, <2>3, AfterPathKeepsStream
      DEF UserAnswers, PromptProvide, PromptAddress, PromptConfirm, CheckPrefix,
          Derive, Answer, At, readVars, Reading
    <2>4. CASE ReadCount \/ ReadByte
      BY <2>0, <2>4, ReadCountKeepsStream, ReadByteKeepsStream
    <2>5. CASE ReadStep
      BY <2>0, <2>1, <2>5, ReadStepKeepsStream DEF ReadStep
    <2>6. ASSUME NEW param \in Params, NEW prompt \in BOOLEAN, Begin(param, prompt)
          PROVE  StreamInv'
      BY <2>6, BeginKeepsStream
    <2>7. CASE UNCHANGED vars
      BY <2>7
      DEF vars, readVars, StreamInv, CutIndependent, Committed, PathIn, StepIn, Bytes,
          Rest, Taken
    <2> QED BY <2>1, <2>2, <2>3, <2>4, <2>5, <2>6, <2>7
        DEF Next, HostAnswers, HostFailure, Handler, EndOfChain, DeriveFails,
            Environment, Start, StartWithoutParams, WrongAnswer, Stop
  <1> QED BY <1>1, <1>2, AddressInvariant, PTL DEF Spec

\* However the host cuts the parameter into blocks, the path that is checked,
\* shown and returned is the one its bytes spell.
THEOREM CutsDoNotMatter == Spec => []CutIndependent
  <1>1. StreamInv => CutIndependent
    BY DEF StreamInv
  <1> QED BY <1>1, StreamInvariant, PTL

-----------------------------------------------------------------------------
(* Every request runs out of steps *)

\* What is left is a number, and something is left of a request that is open.
LEMMA StepsLeftType ==
    ASSUME TypeOK
    PROVE  StepsLeft \in Nat /\ (pc \in Busy => StepsLeft > 0)
  <1>1. Len(cursor) \in Nat /\ Len(Rest) \in Nat
    BY RestType DEF TypeOK
  <1>2. CASE pc \in Reading
    BY <1>1, <1>2 DEF StepsLeft
  <1>3. CASE pc \notin Reading
    BY <1>3 DEF StepsLeft, Busy, Asking
  <1> QED BY <1>2, <1>3

\* A request that ends needs nothing more.
LEMMA EndCounts ==
    ASSUME TypeOK, pc \in Busy, pc' \notin Busy
    PROVE  StepsLeft' \in 0..(StepsLeft - 1)
  <1>1. StepsLeft' = 0
    BY DEF StepsLeft, Busy, Reading, Asking
  <1> QED BY <1>1, StepsLeftType

\* A block that comes is one block less.
LEMMA FetchCounts ==
    ASSUME TypeOK, NEW block \in Blocks, Fetch(block)
    PROVE  StepsLeft' \in 0..(StepsLeft - 1)
  <1>1. block.data \in Seq(Byte) /\ block.next \in Seq(Seq(Byte))
    BY AddressBlocksAssumption
  <1>2. pc \in Reading /\ pc' = pc
    BY DEF Fetch, Waiting
  <1>3. Len(cursor) = Len(cursor') + 1 /\ Len(cursor') \in Nat
    <2> DEFINE d == block.data
               n == block.next
    <2>1. Len(<<d>> \o n) = Len(n) + 1 /\ Len(n) \in Nat
      <3>1. n \in Seq(Seq(Byte))
        BY <1>1
      <3> HIDE DEF d, n
      <3> QED BY <3>1
    <2> QED BY <2>1 DEF Fetch
  <1>4. Rest' = Rest /\ Len(Rest) \in Nat
    BY RestType, FetchMovesBytes
  <1>5. StepsLeft = 7 + Len(cursor) + Len(Rest)
    BY <1>2 DEF StepsLeft, Reading
  <1>6. StepsLeft' = 7 + Len(cursor') + Len(Rest)
    BY <1>2, <1>4 DEF StepsLeft, Reading
  <1> QED BY <1>3, <1>4, <1>5, <1>6

\* A byte that is read is one byte less.
LEMMA ReadCounts ==
    ASSUME TypeOK, pc \in Reading, unread # <<>>, unread' = Tail(unread),
           cursor' = cursor, pc' \in Reading \cup {"check"}
    PROVE  StepsLeft' \in 0..(StepsLeft - 1)
  <1> DEFINE n == Len(Rest)
             c == Len(cursor)
  <1>1. n > 0 /\ Len(Rest') = n - 1
    BY RestMoves
  <1>2. n \in Nat /\ c \in Nat
    BY RestType DEF TypeOK
  <1>3. StepsLeft = 7 + c + n
    BY DEF StepsLeft, Reading
  <1>4. CASE pc' \in Reading
    <2>1. StepsLeft' = 7 + c + (n - 1)
      BY <1>1, <1>4 DEF StepsLeft, Reading
    <2> HIDE DEF n, c
    <2> QED BY <1>1, <1>2, <1>3, <2>1
  <1>5. CASE pc' = "check"
    <2>1. StepsLeft' = 6
      BY <1>5 DEF StepsLeft, Reading
    <2> HIDE DEF n, c
    <2> QED BY <1>2, <1>3, <2>1
  <1> QED BY <1>4, <1>5

LEMMA HandlerCounts ==
    ASSUME TypeOK, Handler \/ UserAnswers
    PROVE  StepsLeft' \in 0..(StepsLeft - 1)
  <1>1. pc \in Busy
    BY DEF Handler, UserAnswers, EndOfChain, ReadCount, ReadByte, ReadStep, CheckPrefix,
       Derive, DeriveFails, Answer, PromptProvide, PromptAddress, PromptConfirm, At,
       Busy, Reading, Asking
  <1>2. CASE pc' \notin Busy
    BY <1>1, <1>2, EndCounts
  <1>3. CASE Drop
    BY <1>2, <1>3 DEF Drop, Busy, Reading, Asking
  <1>4. CASE ReadCount \/ ReadByte \/ ReadStep
    BY <1>3, <1>4, ReadCounts DEF ReadCount, ReadByte, ReadStep, Reading
  <1>5. CASE UserAnswers \/ CheckPrefix \/ Derive
    BY <1>3, <1>5 DEF UserAnswers, PromptProvide, PromptAddress, PromptConfirm,
       CheckPrefix, Derive, At, StepsLeft, Reading
  <1>6. CASE Answer
    BY <1>2, <1>6 DEF Answer, Busy, Reading, Asking
  <1> QED BY <1>3, <1>4, <1>5, <1>6 DEF Handler, EndOfChain, DeriveFails

\* No request goes on for ever: each of its steps, whoever takes it, leaves fewer
\* to come.  With host and user answering, it ends.
THEOREM RequestsRunOut == Spec => EveryStepCounts
  <1>1. ASSUME AddressInv, [Next]_vars, pc \in Busy, ~Begun', ~UNCHANGED vars
        PROVE  StepsLeft' \in 0..(StepsLeft - 1)
    <2>1. TypeOK
      BY <1>1 DEF AddressInv
    <2>2. CASE Drop
      BY <1>1, <2>1, <2>2, EndCounts DEF Drop, Busy, Reading, Asking
    <2>3. CASE HostAnswers
      BY <2>1, <2>2, <2>3, FetchCounts DEF HostAnswers, HostFailure
    <2>4. CASE Handler \/ UserAnswers
      BY <2>1, <2>4, HandlerCounts
    <2>5. CASE Environment
      <3>1. ~(\E param \in Params, prompt \in BOOLEAN : Start(param, prompt))
        BY <1>1 DEF Start, Begin, Begun
      <3> QED BY <2>2, <2>5, <3>1
              DEF Environment, StartWithoutParams, WrongAnswer, Stop
    <2> QED BY <1>1, <2>3, <2>4, <2>5 DEF Next
  <1>2. AddressInv /\ [Next]_vars =>
          [(pc \in Busy /\ ~Begun') => StepsLeft' \in 0..(StepsLeft - 1)]_vars
    BY <1>1
  <1> QED BY <1>2, AddressInvariant, PTL DEF Spec, EveryStepCounts

-----------------------------------------------------------------------------
(* The handler implements AddressPromise *)

\* Where a path is asked for or answered, it is the one the request spells.
LEMMA PathIsPromised ==
    ASSUME StreamInv, pc \in {"check", "derive", "result"} \cup Asking
    PROVE  PathOf(request) = path
  BY DEF StreamInv, CutIndependent, Committed, Bytes, PathOf

\* Reading, checking and asking are no business of the promise.
LEMMA SilentSteps ==
    ASSUME AddressInv,
           \/ \E block \in Blocks : Fetch(block)
           \/ ReadCount \/ ReadByte
           \/ ReadStep /\ ~Full
           \/ CheckPrefix /\ UnderPrefix(path)
           \/ Derive
           \/ \E answer \in BOOLEAN : PromptProvide(answer) \/ PromptConfirm(answer)
    PROVE  UNCHANGED Promise!vars
  <1>1. TypeOK /\ AnswerInv
    BY DEF AddressInv
  <1>2. UNCHANGED <<request, shown, result>>
    BY DEF Fetch, ReadCount, ReadByte, ReadStep, CheckPrefix, Derive, At,
       PromptProvide, PromptConfirm
  <1>3. CASE pc = "confirm" /\ pc' = "result"
    BY <1>1, <1>2, <1>3 DEF Stage, Promise!vars, AnswerInv, Asking
  <1>4. CASE pc = "derive" /\ pc' = "result"
    <2>1. request.prompt \in BOOLEAN
      BY <1>1, <1>4 DEF TypeOK, Request
    <2>2. request.prompt = FALSE
      BY <1>4, <2>1 DEF Fetch, ReadCount, ReadByte, ReadStep, CheckPrefix, Derive, At,
         PromptProvide, PromptConfirm, Waiting, Reading
    <2> QED BY <1>2, <1>4, <2>2 DEF Stage, Promise!vars
  <1>5. CASE /\ pc \in Reading \cup {"check", "derive", "provide"}
             /\ pc' \in Reading \cup {"check", "derive", "provide", "address"}
    BY <1>2, <1>5 DEF Stage, Promise!vars, Reading
  <1> QED BY <1>3, <1>4, <1>5
          DEF Fetch, ReadCount, ReadByte, ReadStep, CheckPrefix, Derive, At,
              PromptProvide, PromptConfirm, Waiting, Reading

\* Each step of the handler is one of the promise, or none.
LEMMA StepsAreKept ==
    ASSUME AddressInv, StreamInv, [Next]_vars
    PROVE  [Promise!Next]_(Promise!vars)
  <1>1. TypeOK /\ AnswerInv
    BY DEF AddressInv
  <1>2. CASE UNCHANGED vars
    BY <1>2 DEF vars, Promise!vars, Stage
  <1>3. CASE Drop
    BY <1>3 DEF Drop, Clear, Promise!Next, Promise!Abandon, Stage
  <1>4. ASSUME NEW param \in Params, NEW prompt \in BOOLEAN, Begin(param, prompt)
        PROVE  Promise!Begin
    BY <1>4 DEF Begin, Clear, Request, Promise!Begin, Stage
  <1>5. ASSUME NEW answer \in BOOLEAN, PromptAddress(answer)
        PROVE  Promise!Show
    <2>1. PathOf(request) = path
      BY <1>5, PathIsPromised DEF PromptAddress, Asking
    <2>2. request.prompt = TRUE /\ UnderPrefix(path)
      BY <1>1, <1>5 DEF AnswerInv, PromptAddress, Asking
    <2> QED BY <1>5, <2>1, <2>2 DEF PromptAddress, readVars, Promise!Show, Stage
  <1>6. CASE Answer
    <2>1. PathOf(request) = path
      BY <1>6, PathIsPromised DEF Answer
    <2>2. UnderPrefix(path) /\ request.prompt \in BOOLEAN
      BY <1>1, <1>6 DEF AnswerInv, Answer, TypeOK, Request
    <2>3. Promise!Release
      BY <1>6, <2>1, <2>2 DEF Answer, readVars, Promise!Release, Stage
    <2> QED BY <2>3 DEF Promise!Next
  <1>7. CASE CheckPrefix \/ ReadStep
    BY <1>3, <1>7, SilentSteps DEF CheckPrefix, ReadStep
  <1>8. CASE UserAnswers
    BY <1>5, <1>8, SilentSteps DEF UserAnswers, Promise!Next
  <1>9. CASE HostAnswers
    BY <1>3, <1>9, SilentSteps DEF HostAnswers, HostFailure
  <1>10. CASE Handler
    BY <1>3, <1>6, <1>7, <1>10, SilentSteps DEF Handler, EndOfChain, DeriveFails
  <1>11. CASE Environment
    BY <1>3, <1>4, <1>11
    DEF Environment, Start, StartWithoutParams, WrongAnswer, Stop, Promise!Next
  <1> QED BY <1>2, <1>8, <1>9, <1>10, <1>11 DEF Next

\* get_address_apdu keeps the promise.
THEOREM PromiseKept == Spec => KeepsPromise
  <1>1. Init => Promise!Init
    BY DEF Init, Promise!Init, Stage
  <1>2. AddressInv /\ StreamInv /\ [Next]_vars => [Promise!Next]_(Promise!vars)
    BY StepsAreKept
  <1> QED BY <1>1, <1>2, AddressInvariant, StreamInvariant, PTL
          DEF Spec, KeepsPromise, Promise!Spec
=============================================================================
