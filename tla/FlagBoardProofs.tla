-------------------------- MODULE FlagBoardProofs ---------------------------
(***************************************************************************)
(* The board of flags, for every order of the six and every moment at      *)
(* which the host may stop.                                                *)
(***************************************************************************)
EXTENDS FlagBoard, SequenceTheorems, WellFoundedInduction, TLAPS

-----------------------------------------------------------------------------
(* The loop that publishes the flags.                                      *)

\* A set of numbers has a least one: the induction of this module.
LEMMA LeastNumber ==
    ASSUME NEW T, T \subseteq Nat, T # {}
    PROVE  \E x \in T : \A y \in T : ~(y < x)
<1>1. \E x \in T : \A y \in T : <<y, x>> \notin OpToRel(<, Nat)
  BY NatLessThanWellFounded, WFMin
<1> QED BY <1>1 DEF OpToRel

\* f has what the writes of the first flags, up to the n-th, amount to.
Flattening(seqs, n, f) ==
    f = [i \in 1 .. n |-> IF i = 1 THEN seqs[i] ELSE f[i - 1] \o seqs[i]]

\* The sequences of the rounds exist: each round needs only the one before it.
LEMMA FlatteningExists ==
    ASSUME NEW seqs, NEW n \in Nat
    PROVE  \E f : Flattening(seqs, n, f)
<1> DEFINE Bad == {m \in Nat : ~ \E f : Flattening(seqs, m, f)}
<1> SUFFICES ASSUME Bad # {} PROVE FALSE
  OBVIOUS
<1>1. PICK m \in Bad : \A y \in Bad : ~(y < m)
  BY LeastNumber
<1>2. CASE m = 0
  <2>1. Flattening(seqs, 0, [i \in 1 .. 0 |-> <<>>])
    BY DEF Flattening
  <2> QED BY <1>1, <1>2, <2>1
<1>3. CASE m # 0
  <2>1. m \in Nat /\ m - 1 \in Nat
    BY <1>1, <1>3
  <2>2. PICK f : Flattening(seqs, m - 1, f)
    BY <1>1, <2>1
  <2>3. \A i \in 1 .. m - 1 : f[i] = IF i = 1 THEN seqs[i] ELSE f[i - 1] \o seqs[i]
    BY <2>2 DEF Flattening
  <2> DEFINE g == [i \in 1 .. m |-> IF i < m THEN f[i]
                                    ELSE IF i = 1 THEN seqs[i] ELSE f[i - 1] \o seqs[i]]
  <2>4. ASSUME NEW i \in 1 .. m
        PROVE  g[i] = IF i = 1 THEN seqs[i] ELSE g[i - 1] \o seqs[i]
    <3>1. i # 1 => i - 1 \in 1 .. m /\ i - 1 < m
      BY <2>1
    <3>2. i # 1 => g[i - 1] = f[i - 1]
      BY <3>1
    <3>3. CASE i < m
      <4>1. g[i] = f[i] /\ i \in 1 .. m - 1
        BY <3>3, <2>1
      <4> HIDE DEF g
      <4> QED BY <4>1, <2>3, <3>2
    <3>4. CASE ~(i < m)
      <4>1. g[i] = IF i = 1 THEN seqs[i] ELSE f[i - 1] \o seqs[i]
        BY <3>4
      <4> HIDE DEF g
      <4> QED BY <4>1, <3>2
    <3> QED BY <3>3, <3>4
  <2>5. Flattening(seqs, m, g)
    BY <2>4 DEF Flattening
  <2> QED BY <1>1, <2>5
<1> QED BY <1>2, <1>3

\* The orders in which the dictionary may hand out the places.
Order == Bijection(Flag, Range(flagAnnotations))

LEMMA OrderValues ==
    ASSUME NEW values \in Order
    PROVE  /\ values \in [Flag -> Flag]
           /\ \A p \in Flag : \E f \in Flag : values[f] = p
           /\ Range(flagAnnotations) = Flag
BY DEF Order, Bijection, Injection, Surjection, Range, flagAnnotations, Flag

\* What the opening queues, flag by flag in the order of the dictionary.
Queue(values) == FlattenSeq([count \in Flag |-> FlagWrites(count, values[count])])

\* The writes of the first n flags.
Publishes(values, n, s) ==
    /\ s \in Seq(Flag \X Leaf \X Nat)
    /\ Len(s) = 3 * n
    /\ \A f \in 1 .. n :
         /\ s[3 * f - 2] = <<f, "Status", Free>>
         /\ s[3 * f - 1] = <<f, "Longitude", values[f]>>
         /\ s[3 * f] = <<f, "Latitude", values[f]>>

\* A round of the loop.
LEMMA PublishMore ==
    ASSUME NEW values \in Order, NEW n \in Flag, n < 6, NEW s, Publishes(values, n, s)
    PROVE  Publishes(values, n + 1, s \o FlagWrites(n + 1, values[n + 1]))
<1> DEFINE w == FlagWrites(n + 1, values[n + 1])
           r == s \o w
<1>1. n + 1 \in Flag /\ values[n + 1] \in Nat /\ n \in Nat
  BY OrderValues DEF Flag
<1>2. /\ w \in Seq(Flag \X Leaf \X Nat) /\ Len(w) = 3
      /\ w[1] = <<n + 1, "Status", Free>>
      /\ w[2] = <<n + 1, "Longitude", values[n + 1]>>
      /\ w[3] = <<n + 1, "Latitude", values[n + 1]>>
  BY <1>1 DEF FlagWrites, Leaf, Free
<1>3. s \in Seq(Flag \X Leaf \X Nat) /\ Len(s) = 3 * n
  BY DEF Publishes
<1> HIDE DEF w
<1>4. /\ r \in Seq(Flag \X Leaf \X Nat) /\ Len(r) = 3 * (n + 1)
      /\ \A i \in 1 .. 3 * n : r[i] = s[i]
      /\ r[3 * n + 1] = w[1] /\ r[3 * n + 2] = w[2] /\ r[3 * n + 3] = w[3]
  <2>1. /\ r \in Seq(Flag \X Leaf \X Nat) /\ Len(r) = 3 * n + 3
        /\ \A i \in 1 .. 3 * n + 3 : r[i] = IF i <= 3 * n THEN s[i] ELSE w[i - 3 * n]
    <3> DEFINE W == Flag \X Leaf \X Nat
    <3>1. s \in Seq(W) /\ w \in Seq(W)
      BY <1>2, <1>3
    <3> HIDE DEF W
    <3>2. /\ r \in Seq(W) /\ Len(r) = Len(s) + Len(w)
          /\ \A i \in 1 .. Len(s) + Len(w) : r[i] = IF i <= Len(s) THEN s[i] ELSE w[i - Len(s)]
      BY <3>1, ConcatProperties
    <3> HIDE DEF r
    <3> QED BY <1>2, <1>3, <3>2 DEF W
  <2>2. 3 * n \in Nat
    BY <1>1
  <2> HIDE DEF r
  <2>3. \A i \in 1 .. 3 * n : r[i] = s[i]
    BY <2>1, <2>2
  <2>4. r[3 * n + 1] = w[1] /\ r[3 * n + 2] = w[2] /\ r[3 * n + 3] = w[3]
    <3> DEFINE k == 3 * n
    <3>1. k \in Nat /\ \A i \in 1 .. k + 3 : r[i] = IF i <= k THEN s[i] ELSE w[i - k]
      BY <2>1, <2>2
    <3> HIDE DEF k
    <3>2. \A j \in 1 .. 3 : r[k + j] = w[j]
      <4> TAKE j \in 1 .. 3
      <4>1. k + j \in 1 .. k + 3 /\ ~(k + j <= k) /\ (k + j) - k = j
        BY <3>1
      <4> QED BY <3>1, <4>1
    <3> QED BY <3>2 DEF k
  <2> QED BY <1>1, <2>1, <2>3, <2>4
<1> HIDE DEF r
<1>5. ASSUME NEW f \in 1 .. n + 1
      PROVE  /\ r[3 * f - 2] = <<f, "Status", Free>>
             /\ r[3 * f - 1] = <<f, "Longitude", values[f]>>
             /\ r[3 * f] = <<f, "Latitude", values[f]>>
  <2>1. CASE f \in 1 .. n
    <3>1. 3 * f - 2 \in 1 .. 3 * n /\ 3 * f - 1 \in 1 .. 3 * n /\ 3 * f \in 1 .. 3 * n
      BY <1>1, <2>1
    <3> QED BY <1>4, <2>1, <3>1 DEF Publishes
  <2>2. CASE f = n + 1
    <3>1. 3 * f - 2 = 3 * n + 1 /\ 3 * f - 1 = 3 * n + 2 /\ 3 * f = 3 * n + 3
      BY <1>1, <2>2
    <3> QED BY <1>2, <1>4, <2>2, <3>1
  <2> QED BY <1>1, <2>1, <2>2
<1>6. Publishes(values, n + 1, r)
  BY <1>4, <1>5 DEF Publishes
<1> QED BY <1>6 DEF r, w

\* The eighteen writes.
LEMMA QueuePublishes ==
    ASSUME NEW values \in Order
    PROVE  Publishes(values, 6, Queue(values))
<1> DEFINE seqs == [count \in Flag |-> FlagWrites(count, values[count])]
<1>1. Len(seqs) = 6
  BY DEF Flag
<1>2. \E f : Flattening(seqs, Len(seqs), f)
  BY <1>1, FlatteningExists
<1> HIDE DEF seqs
<1> DEFINE f == CHOOSE f : Flattening(seqs, Len(seqs), f)
<1>3. Flattening(seqs, Len(seqs), f)
  BY <1>2, Zenon
<1>4. FlattenSeq(seqs) = f[Len(seqs)]
  <2>1. Len(seqs) # 0
    BY <1>1
  <2> QED BY <2>1, Zenon DEF FlattenSeq, Flattening
<1> HIDE DEF f
<1>5. f[1] = seqs[1] /\ \A n \in Flag : n < 6 => f[n + 1] = f[n] \o seqs[n + 1]
  <2>1. \A i \in 1 .. 6 : f[i] = IF i = 1 THEN seqs[i] ELSE f[i - 1] \o seqs[i]
    BY <1>1, <1>3 DEF Flattening
  <2>2. ASSUME NEW n \in Flag, n < 6
        PROVE  f[n + 1] = f[n] \o seqs[n + 1]
    <3>1. n + 1 \in 1 .. 6 /\ n + 1 # 1 /\ (n + 1) - 1 = n
      BY <2>2 DEF Flag
    <3> QED BY <2>1, <3>1
  <2>3. 1 \in 1 .. 6
    OBVIOUS
  <2>4. f[1] = seqs[1]
    BY <2>1, <2>3
  <2> QED BY <2>2, <2>4
<1>6. \A n \in Flag : seqs[n] = FlagWrites(n, values[n])
  BY DEF seqs
<1>7. Publishes(values, 1, f[1])
  <2>1. values[1] \in Nat
    BY OrderValues DEF Flag
  <2>2. f[1] = FlagWrites(1, values[1])
    BY <1>5, <1>6 DEF Flag
  <2> QED BY <2>1, <2>2 DEF Publishes, FlagWrites, Flag, Leaf, Free
<1>8. ASSUME NEW n \in Flag, n < 6, Publishes(values, n, f[n])
      PROVE  Publishes(values, n + 1, f[n + 1])
  <2>1. n + 1 \in Flag
    BY <1>8 DEF Flag
  <2> QED BY <1>5, <1>6, <1>8, <2>1, PublishMore
<1>9. Publishes(values, 6, f[6])
  <2>1. \A n \in Flag : n < 6 /\ Publishes(values, n, f[n]) => Publishes(values, n + 1, f[n + 1])
    BY <1>8
  <2>2. Publishes(values, 2, f[2])
    BY <1>7, <2>1 DEF Flag
  <2>3. Publishes(values, 3, f[3])
    BY <2>1, <2>2 DEF Flag
  <2>4. Publishes(values, 4, f[4])
    BY <2>1, <2>3 DEF Flag
  <2>5. Publishes(values, 5, f[5])
    BY <2>1, <2>4 DEF Flag
  <2> QED BY <2>1, <2>5 DEF Flag
<1> QED BY <1>1, <1>4, <1>9 DEF Queue, seqs

-----------------------------------------------------------------------------
(* The board.                                                              *)

\* The number of a leaf's write among the eighteen, and what it writes.
Number(f, leaf) == 3 * f - (CASE leaf = "Status" -> 2 [] leaf = "Longitude" -> 1 [] leaf = "Latitude" -> 0)
Value(values, f, leaf) == IF leaf = "Status" THEN Free ELSE values[f]

BoardIsTable == board \in [Flag -> [Leaf -> Nat]]

\* The first n writes have arrived.
Arrived(values, n) ==
    \A f \in Flag : \A leaf \in Leaf :
        board[f][leaf] = IF Number(f, leaf) <= n THEN Value(values, f, leaf) ELSE Unset

\* The host sends the writes of one order; those that have arrived are the first
\* ones, and as long as it runs the others are on their way.
BoardInv ==
    /\ BoardIsTable
    /\ host \in {"menu", "running", "closed"}
    /\ host = "menu" => outbox = <<>>
    /\ \E values \in Order, n \in 0 .. 18 :
         /\ Arrived(values, n)
         /\ host = "menu" => n = 0
         /\ host = "running" =>
              /\ outbox \in Seq(Flag \X Leaf \X Nat)
              /\ Len(outbox) = 18 - n
              /\ \A k \in 1 .. 18 - n : outbox[k] = Queue(values)[n + k]
         /\ host = "closed" => outbox = <<>>

\* Write number n + 1 is the write of a leaf with that number.
LEMMA NumberedWrites ==
    ASSUME NEW values \in Order, NEW n \in 0 .. 17
    PROVE  \E f \in Flag, leaf \in Leaf :
             /\ Number(f, leaf) = n + 1
             /\ Queue(values)[n + 1] = <<f, leaf, Value(values, f, leaf)>>
<1>1. \A f \in 1 .. 6 :
        /\ Queue(values)[3 * f - 2] = <<f, "Status", Free>>
        /\ Queue(values)[3 * f - 1] = <<f, "Longitude", values[f]>>
        /\ Queue(values)[3 * f] = <<f, "Latitude", values[f]>>
  BY QueuePublishes DEF Publishes
<1>2. PICK f \in 1 .. 6 : n + 1 = 3 * f - 2 \/ n + 1 = 3 * f - 1 \/ n + 1 = 3 * f
  <2>1. n + 3 \in Int /\ (n + 3) \div 3 \in 1 .. 6
    OBVIOUS
  <2> QED BY <2>1
<1>3. CASE n + 1 = 3 * f - 2
  BY <1>1, <1>3 DEF Number, Value, Flag, Leaf
<1>4. CASE n + 1 = 3 * f - 1
  BY <1>1, <1>4 DEF Number, Value, Flag, Leaf
<1>5. CASE n + 1 = 3 * f
  BY <1>1, <1>5 DEF Number, Value, Flag, Leaf
<1> QED BY <1>2, <1>3, <1>4, <1>5

\* Two leaves of the board have two numbers.
LEMMA NumbersDiffer ==
    ASSUME NEW f \in Flag, NEW g \in Flag, NEW leaf \in Leaf, NEW other \in Leaf
    PROVE  /\ Number(f, leaf) \in 1 .. 18
           /\ Number(f, leaf) = Number(g, other) => f = g /\ leaf = other
BY DEF Number, Flag, Leaf

LEMMA InitBoard == Init => BoardInv
<1> SUFFICES ASSUME Init PROVE BoardInv
  OBVIOUS
<1>1. flagAnnotations \in Order
  BY DEF Order, Bijection, Injection, Surjection, IsInjective, Range, flagAnnotations
<1>2. Arrived(flagAnnotations, 0)
  BY NumbersDiffer DEF Init, Arrived
<1>3. BoardIsTable
  BY DEF Init, BoardIsTable, Unset
<1> QED BY <1>1, <1>2, <1>3 DEF Init, BoardInv

\* The write that arrives is the one with the next number.
LEMMA CommitBoard == BoardInv /\ Commit => BoardInv'
<1> SUFFICES ASSUME BoardInv, Commit PROVE BoardInv'
  OBVIOUS
<1>1. PICK values \in Order, n \in 0 .. 18 :
        /\ Arrived(values, n)
        /\ host = "running" =>
             /\ outbox \in Seq(Flag \X Leaf \X Nat)
             /\ Len(outbox) = 18 - n
             /\ \A k \in 1 .. 18 - n : outbox[k] = Queue(values)[n + k]
        /\ host = "closed" => outbox = <<>>
  BY DEF BoardInv
<1>2. host = "running" /\ host' = host
  BY <1>1 DEF BoardInv, Commit
<1>3. /\ n \in 0 .. 17 /\ n + 1 \in 0 .. 18
      /\ Head(outbox) = Queue(values)[n + 1]
      /\ Tail(outbox) \in Seq(Flag \X Leaf \X Nat)
      /\ Len(Tail(outbox)) = 18 - (n + 1)
      /\ \A k \in 1 .. 18 - (n + 1) : Tail(outbox)[k] = outbox[k + 1]
  <2> DEFINE W == Flag \X Leaf \X Nat
  <2>1. outbox \in Seq(W) /\ outbox # <<>> /\ Len(outbox) = 18 - n
    BY <1>1, <1>2 DEF Commit
  <2> HIDE DEF W
  <2>2. Len(outbox) >= 1 /\ n \in 0 .. 17 /\ n + 1 \in 0 .. 18
    BY <2>1
  <2>3. Tail(outbox) \in Seq(W) /\ Len(Tail(outbox)) = Len(outbox) - 1
        /\ \A k \in 1 .. Len(outbox) - 1 : Tail(outbox)[k] = outbox[k + 1]
    BY <2>1
  <2>4. Head(outbox) = outbox[1] /\ outbox[1] = Queue(values)[n + 1]
    BY <1>1, <1>2, <2>1, <2>2
  <2> QED BY <2>1, <2>2, <2>3, <2>4 DEF W
<1>4. \A k \in 1 .. 18 - (n + 1) : Tail(outbox)[k] = Queue(values)[(n + 1) + k]
  <2> TAKE k \in 1 .. 18 - (n + 1)
  <2>0. n \in 0 .. 17
    BY <1>3
  <2>1. k + 1 \in 1 .. 18 - n /\ n + (k + 1) = (n + 1) + k
    BY <2>0
  <2> QED BY <1>1, <1>2, <1>3, <2>1
<1>5. PICK g \in Flag, other \in Leaf :
        /\ Number(g, other) = n + 1
        /\ Queue(values)[n + 1] = <<g, other, Value(values, g, other)>>
  BY <1>3, NumberedWrites
<1>6. board' = [board EXCEPT ![g][other] = Value(values, g, other)]
  <2>1. LET w == Head(outbox) IN board' = [board EXCEPT ![w[1]][w[2]] = w[3]]
    BY DEF Commit
  <2>2. Head(outbox) = <<g, other, Value(values, g, other)>>
    BY <1>3, <1>5
  <2> DEFINE w == Head(outbox)
  <2>3. w[1] = g /\ w[2] = other /\ w[3] = Value(values, g, other)
    BY <2>2
  <2>4. board' = [board EXCEPT ![w[1]][w[2]] = w[3]]
    BY <2>1
  <2> HIDE DEF w
  <2> QED BY <2>3, <2>4
<1>7. Value(values, g, other) \in Nat
  BY OrderValues DEF Value, Free, Flag
<1>8. BoardIsTable'
  BY <1>6, <1>7 DEF BoardIsTable, BoardInv
<1>9. Arrived(values, n + 1)'
  <2> SUFFICES ASSUME NEW f \in Flag, NEW leaf \in Leaf
               PROVE  board'[f][leaf] = IF Number(f, leaf) <= n + 1 THEN Value(values, f, leaf) ELSE Unset
    BY DEF Arrived, Unset
  <2>1. board[f][leaf] = IF Number(f, leaf) <= n THEN Value(values, f, leaf) ELSE Unset
    BY <1>1 DEF Arrived
  <2>2. CASE f = g /\ leaf = other
    BY <1>5, <1>6, <2>2 DEF BoardIsTable, BoardInv
  <2>3. CASE ~(f = g /\ leaf = other)
    <3>1. board'[f][leaf] = board[f][leaf]
      BY <1>6, <2>3 DEF BoardIsTable, BoardInv
    <3>2. Number(f, leaf) # n + 1 /\ Number(f, leaf) \in Int
      BY <1>5, <2>3, NumbersDiffer
    <3>3. Number(f, leaf) <= n + 1 <=> Number(f, leaf) <= n
      BY <1>3, <3>2
    <3> QED BY <2>1, <3>1, <3>3
  <2> QED BY <2>2, <2>3
<1>10. outbox' = Tail(outbox)
  BY DEF Commit
<1> QED BY <1>2, <1>3, <1>4, <1>8, <1>9, <1>10 DEF BoardInv

LEMMA NextBoard == BoardInv /\ [Next]_boardVars => BoardInv'
<1>1. ASSUME BoardInv, HostOpens PROVE BoardInv'
  <2>1. PICK values \in Order : outbox' = Queue(values)
    BY <1>1 DEF HostOpens, Order, Queue
  <2>2. Arrived(values, 0)
    BY <1>1, NumbersDiffer DEF HostOpens, BoardInv, Arrived
  <2>3. Publishes(values, 6, outbox')
    BY <2>1, QueuePublishes
  <2>4. host' = "running" /\ board' = board
    BY <1>1 DEF HostOpens
  <2>5. Arrived(values, 0)'
    BY <2>2, <2>4 DEF Arrived, Unset
  <2>6. outbox' \in Seq(Flag \X Leaf \X Nat) /\ Len(outbox') = 18 - 0
    BY <2>3 DEF Publishes
  <2>7. \A k \in 1 .. 18 - 0 : outbox'[k] = Queue(values)[0 + k]
    BY <2>1
  <2>8. BoardIsTable'
    BY <1>1, <2>4 DEF BoardInv, BoardIsTable
  <2>9. 0 \in 0 .. 18
    OBVIOUS
  <2> QED BY <2>4, <2>5, <2>6, <2>7, <2>8, <2>9 DEF BoardInv
<1>2. ASSUME BoardInv, Quit PROVE BoardInv'
  BY <1>2 DEF Quit, BoardInv, BoardIsTable, Arrived
<1>3. ASSUME BoardInv, UNCHANGED boardVars PROVE BoardInv'
  BY <1>3 DEF boardVars, BoardInv, BoardIsTable, Arrived
<1> QED BY <1>1, <1>2, <1>3, CommitBoard DEF Next

\* Wherever the host stops, in whatever order the dictionary hands out the
\* flags: a reader who finds the place of a flag finds the whole flag, and every
\* flag before it (HostLobbyViewController.swift:125-132).
THEOREM PrefixOnBoard == Spec => []BoardIsPrefix
<1>1. BoardInv => BoardIsPrefix
  <2> SUFFICES ASSUME BoardInv, NEW f \in Flag, Located(f)
               PROVE  /\ \A g \in 1 .. f : \A leaf \in Leaf : board[g][leaf] # Unset
                      /\ board[f]["Longitude"] = board[f]["Latitude"]
    BY DEF BoardIsPrefix
  <2>1. PICK values \in Order, n \in 0 .. 18 : Arrived(values, n)
    BY DEF BoardInv
  <2>2. Number(f, "Latitude") <= n
    BY <2>1 DEF Located, Arrived, Leaf
  <2>3. ASSUME NEW g \in 1 .. f, NEW leaf \in Leaf
        PROVE  g \in Flag /\ board[g][leaf] = Value(values, g, leaf) /\ board[g][leaf] # Unset
    <3>1. g \in Flag /\ Number(g, leaf) <= n
      BY <2>2 DEF Number, Flag, Leaf
    <3>2. Value(values, g, leaf) # Unset
      BY <3>1, OrderValues DEF Value, Free, Unset, Flag
    <3> QED BY <2>1, <3>1, <3>2 DEF Arrived
  <2>4. board[f]["Longitude"] = values[f] /\ board[f]["Latitude"] = values[f]
    BY <2>3 DEF Flag, Leaf, Value
  <2> QED BY <2>3, <2>4
<1> QED BY <1>1, InitBoard, NextBoard, PTL DEF Spec

\* When a host who runs has nothing on its way any more, the six flags are at
\* the six places, one at each (HostLobbyViewController.swift:122-132).
THEOREM PlacesOnBoard == Spec => []EveryPlaceHasItsFlag
<1>1. BoardInv => EveryPlaceHasItsFlag
  <2> SUFFICES ASSUME BoardInv, host = "running", outbox = <<>>
               PROVE  {PlaceOf(f) : f \in Flag} = {<<p, p>> : p \in Range(flagAnnotations)}
    BY DEF EveryPlaceHasItsFlag
  <2>1. PICK values \in Order, n \in 0 .. 18 : Arrived(values, n) /\ Len(outbox) = 18 - n
    BY DEF BoardInv
  <2>2. n = 18
    BY <2>1
  <2>3. ASSUME NEW f \in Flag PROVE PlaceOf(f) = <<values[f], values[f]>>
    <3>1. \A leaf \in Leaf : board[f][leaf] = Value(values, f, leaf)
      BY <2>1, <2>2, NumbersDiffer DEF Arrived
    <3> QED BY <3>1 DEF PlaceOf, Value, Leaf
  <2> QED BY <2>3, OrderValues
<1> QED BY <1>1, InitBoard, NextBoard, PTL DEF Spec

=============================================================================
