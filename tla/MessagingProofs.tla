-------------------------- MODULE MessagingProofs --------------------------
(***************************************************************************)
(* Theorems about Messaging, for any number of nodes, messages, readers,   *)
(* timestamps and retries, any size of a page, and all faults.             *)
(***************************************************************************)
EXTENDS Messaging, FunctionTheorems, FiniteSetTheorems, SequenceTheorems, TLAPS

----------------------------------------------------------------------------
(* The messages table.                                                     *)

\* t may have become u: rows were added at the end or have been read.
Grows(t, u) ==
    /\ Len(u) >= Len(t)
    /\ \A i \in 1..Len(t) : /\ u[i].id = t[i].id
                            /\ t[i].read => u[i].read

LEMMA GrowsNot == \A t : Len(t) \in Nat => Grows(t, t)
  BY DEF Grows

LEMMA RowType ==
    /\ \A m \in Msg : /\ [id |-> m, read |-> TRUE] \in Row
                      /\ [id |-> m, read |-> FALSE] \in Row
    /\ \A r \in Row : r.id \in Msg /\ r.read \in BOOLEAN
  BY DEF Row

\* A row is looked up by its id.
LEMMA IdsOf ==
    ASSUME NEW t \in Seq(Row)
    PROVE  /\ \A i \in 1..Len(t) : t[i] \in Row /\ t[i].id \in Msg /\ t[i].id \in Ids(t)
           /\ \A m : m \in Ids(t) <=> \E i \in 1..Len(t) : t[i].id = m
  <1>1. \A i \in 1..Len(t) : t[i] \in Row
    BY ElementOfSeq
  <1> QED
    BY <1>1, RowType DEF Ids

\* insert_message adds at most one row, at the end.
LEMMA InsertGrows ==
    ASSUME NEW t \in Seq(Row), NEW m \in Msg, NEW r \in BOOLEAN
    PROVE  LET u == insert_message(t, m, r)
           IN  /\ u \in Seq(Row) /\ Grows(t, u)
               /\ Ids(u) \subseteq Ids(t) \cup {m}
               /\ \A i \in 1..Len(u) : \/ i \in 1..Len(t) /\ u[i] = t[i]
                                       \/ u[i] = [id |-> m, read |-> r]
  <1> DEFINE w == [id |-> m, read |-> r]
             u == insert_message(t, m, r)
  <1>1. CASE m \in Ids(t)
    <2>1. u = t
      BY <1>1 DEF insert_message
    <2> QED
      BY <2>1, GrowsNot, LenProperties
  <1>2. CASE m \notin Ids(t)
    <2>1. u = Append(t, w)
      BY <1>2 DEF insert_message
    <2>2. w \in Row /\ w.id = m
      BY DEF Row
    <2> HIDE DEF w, u
    <2>3. /\ u \in Seq(Row) /\ Len(u) = Len(t) + 1 /\ Len(t) \in Nat
          /\ \A i \in 1..Len(t) : u[i] = t[i]
          /\ u[Len(t) + 1] = w
      BY <2>1, <2>2, AppendProperties, LenProperties
    <2>4. Grows(t, u)
      BY <2>3 DEF Grows
    <2>5. \A i \in 1..Len(u) : (i \in 1..Len(t) /\ u[i] = t[i]) \/ u[i] = w
      BY <2>3
    <2>6. Ids(u) \subseteq Ids(t) \cup {m}
      BY <2>2, <2>5 DEF Ids
    <2> QED
      BY <2>3, <2>4, <2>5, <2>6 DEF w, u
  <1> QED
    BY <1>1, <1>2

\* mark_message_read touches the rows with the given id only.
LEMMA MarkGrows ==
    ASSUME NEW t \in Seq(Row), NEW m \in Msg
    PROVE  LET u == mark_message_read(t, m)
           IN  /\ u \in Seq(Row) /\ Grows(t, u)
               /\ Ids(u) = Ids(t) /\ Len(u) = Len(t)
               /\ \A i \in 1..Len(t) : u[i].read => t[i].read \/ t[i].id = m
  <1> DEFINE u == mark_message_read(t, m)
  <1>0. Len(t) \in Nat /\ \A i \in 1..Len(t) : t[i] \in Row
    BY ElementOfSeq, LenProperties
  <1>1. \A i \in 1..Len(t) : u[i] = [t[i] EXCEPT !.read = t[i].read \/ t[i].id = m]
    BY DEF mark_message_read
  <1>2. ASSUME NEW i \in 1..Len(t)
        PROVE  /\ u[i] \in Row /\ u[i].id = t[i].id
               /\ u[i].read <=> t[i].read \/ t[i].id = m
    BY <1>0, <1>1 DEF Row
  <1>3. u = [i \in 1..Len(t) |-> u[i]]
    BY DEF mark_message_read
  <1> HIDE DEF u
  <1>4. u \in Seq(Row) /\ Len(u) = Len(t)
    <2>1. u \in [1..Len(t) -> Row]
      BY <1>2, <1>3
    <2> QED
      BY <1>0, <2>1
  <1>5. Grows(t, u) /\ Ids(u) = Ids(t)
    BY <1>0, <1>2, <1>4 DEF Grows, Ids
  <1> QED
    BY <1>2, <1>4, <1>5 DEF u
----------------------------------------------------------------------------
(* The order of the inbox.                                                 *)

\* The rows that are listed before row i, and how many they are.
Above(st, t, i) ==
    {j \in 1..Len(t) : \/ st[t[j].id] > st[t[i].id]
                       \/ st[t[j].id] = st[t[i].id] /\ j < i}
Rank(st, t, i) == Cardinality(Above(st, t, i))

LEMMA AboveFinite ==
    ASSUME NEW st, NEW t \in Seq(Row), NEW i
    PROVE  IsFiniteSet(Above(st, t, i)) /\ Rank(st, t, i) \in Nat
  <1>1. Len(t) \in Nat /\ IsFiniteSet(1..Len(t))
    BY LenProperties, FS_Interval
  <1>2. Above(st, t, i) \subseteq 1..Len(t)
    BY DEF Above
  <1>3. IsFiniteSet(Above(st, t, i))
    BY <1>1, <1>2, FS_Subset
  <1> QED
    BY <1>3, FS_CardinalityType DEF Rank

\* A row with more rows above it in one table than in the other.
LEMMA RankGrows ==
    ASSUME NEW st \in [Msg -> Nat], NEW su \in [Msg -> Nat],
           NEW t \in Seq(Row), NEW u \in Seq(Row), Grows(t, u),
           \A m \in Ids(t) : su[m] = st[m],
           NEW i \in 1..Len(t)
    PROVE  Rank(st, t, i) <= Rank(su, u, i)
  <1>1. Above(st, t, i) \subseteq Above(su, u, i)
    <2>1. 1..Len(t) \subseteq 1..Len(u)
      BY LenProperties DEF Grows
    <2>2. \A j \in 1..Len(t) : u[j].id = t[j].id /\ su[t[j].id] = st[t[j].id]
      BY IdsOf DEF Grows
    <2> QED
      BY <2>1, <2>2 DEF Above
  <1>2. IsFiniteSet(Above(su, u, i))
    BY AboveFinite
  <1> QED
    BY <1>1, <1>2, FS_Subset DEF Rank

\* The ranks of a table of n rows are 0 to n - 1, each of them once.
LEMMA RankBijective ==
    ASSUME NEW st \in [Msg -> Nat], NEW t \in Seq(Row)
    PROVE  /\ \A i \in 1..Len(t) : Rank(st, t, i) \in 0..Len(t) - 1
           /\ \A i, j \in 1..Len(t) : Rank(st, t, i) = Rank(st, t, j) => i = j
           /\ \A k \in 0..Len(t) - 1 : \E i \in 1..Len(t) : Rank(st, t, i) = k
  <1> DEFINE D == 1..Len(t)
             E == 0..Len(t) - 1
             f == [i \in D |-> Rank(st, t, i)]
  <1>0. Len(t) \in Nat /\ \A i \in D : t[i].id \in Msg /\ st[t[i].id] \in Nat
    BY IdsOf, LenProperties
  <1>1. IsFiniteSet(D) /\ Cardinality(D) = Len(t)
    BY SMTT(30), <1>0, FS_Interval
  <1>2. IsFiniteSet(E) /\ Cardinality(E) = Len(t)
    <2>1. 0 \in Int /\ Len(t) - 1 \in Int
      BY <1>0
    <2>2. /\ IsFiniteSet(E)
          /\ Cardinality(E) = IF 0 > Len(t) - 1 THEN 0 ELSE Len(t) - 1 - 0 + 1
      BY <2>1, FS_Interval
    <2> QED
      BY <1>0, <2>2
  <1>3. ASSUME NEW i \in D PROVE Rank(st, t, i) \in E
    <2>1. Above(st, t, i) \subseteq D \ {i}
      BY <1>0 DEF Above
    <2>2. IsFiniteSet(D \ {i}) /\ Cardinality(D \ {i}) = Len(t) - 1
      BY <1>1, FS_RemoveElement
    <2>3. Rank(st, t, i) <= Len(t) - 1
      BY <2>1, <2>2, FS_Subset DEF Rank
    <2> QED
      BY <1>0, <2>3, AboveFinite
  <1>4. ASSUME NEW i \in D, NEW j \in D, i \in Above(st, t, j)
        PROVE  Rank(st, t, i) # Rank(st, t, j)
    <2>1. Above(st, t, i) \subseteq Above(st, t, j)
      BY <1>0, <1>4 DEF Above
    <2>2. i \notin Above(st, t, i)
      BY <1>0 DEF Above
    <2>3. IsFiniteSet(Above(st, t, j))
      BY AboveFinite
    <2>4. Above(st, t, i) # Above(st, t, j)
      BY <1>4, <2>2
    <2> QED
      BY <2>1, <2>3, <2>4, FS_Subset DEF Rank
  <1>5. ASSUME NEW i \in D, NEW j \in D, Rank(st, t, i) = Rank(st, t, j)
        PROVE  i = j
    <2>1. i \notin Above(st, t, j) /\ j \notin Above(st, t, i)
      BY <1>4, <1>5
    <2> QED
      BY <1>0, <2>1 DEF Above
  <1>6. f \in Injection(D, E)
    <2>1. f \in [D -> E]
      BY <1>3
    <2>2. \A i, j \in D : f[i] = f[j] => i = j
      BY <1>5
    <2> HIDE DEF f, D, E
    <2> QED
      BY <2>1, <2>2, Fun_IsInj
  <1>7. f \in Surjection(D, E)
    <2> HIDE DEF f, D, E
    <2> QED
      BY <1>1, <1>2, <1>6, FS_Injection
  <1>8. \A k \in E : \E i \in D : f[i] = k
    <2> HIDE DEF f, D, E
    <2> QED
      BY <1>7, Fun_SurjectionProperties
  <1> QED
    BY <1>3, <1>5, <1>8

\* ORDER BY yields every row once, each after the rows above it.
LEMMA SortedRank ==
    ASSUME stamp \in [Msg -> Nat], NEW t \in Seq(Row)
    PROVE  /\ Sorted(t) \in Seq(Row) /\ Len(Sorted(t)) = Len(t)
           /\ \A i \in 1..Len(t) : Sorted(t)[Rank(stamp, t, i) + 1] = t[i]
  <1> DEFINE D == 1..Len(t)
             C(k) == CHOOSE i \in D :
                        Cardinality({j \in D : Before(t, j, i)}) = k - 1
  <1>0. Len(t) \in Nat /\ \A i \in D : t[i] \in Row
    BY IdsOf, LenProperties
  <1>1. \A i \in D : Cardinality({j \in D : Before(t, j, i)}) = Rank(stamp, t, i)
    <2>1. \A i \in D : {j \in D : Before(t, j, i)} = Above(stamp, t, i)
      BY DEF Before, Above
    <2> QED
      BY <2>1 DEF Rank
  <1>2. ASSUME NEW k \in D
        PROVE  C(k) \in D /\ Rank(stamp, t, C(k)) = k - 1
    <2>1. k - 1 \in 0..Len(t) - 1
      BY <1>0
    <2>a. \E i \in D : Rank(stamp, t, i) = k - 1
      BY <2>1, RankBijective
    <2>2. \E i \in D : Cardinality({j \in D : Before(t, j, i)}) = k - 1
      BY <1>1, <2>a
    <2>3. C(k) \in D /\ Cardinality({j \in D : Before(t, j, C(k))}) = k - 1
      BY <2>2
    <2> QED
      BY <1>1, <2>3
  <1>3. Sorted(t) = [k \in D |-> t[C(k)]]
    BY DEF Sorted
  <1> HIDE DEF C
  <1>4. Sorted(t) \in Seq(Row) /\ Len(Sorted(t)) = Len(t)
    <2>1. Sorted(t) \in [D -> Row]
      BY <1>0, <1>2, <1>3
    <2> QED
      BY <1>0, <2>1
  <1>5. ASSUME NEW i \in D PROVE Sorted(t)[Rank(stamp, t, i) + 1] = t[i]
    <2> DEFINE k == Rank(stamp, t, i) + 1
    <2>1. Rank(stamp, t, i) \in 0..Len(t) - 1
      BY RankBijective
    <2>2. k \in D /\ k - 1 = Rank(stamp, t, i)
      BY <1>0, <2>1
    <2> HIDE DEF k
    <2>3. C(k) = i
      BY ZenonT(30), <1>2, <2>2, RankBijective
    <2>4. Sorted(t)[k] = t[i]
      BY <1>3, <2>2, <2>3
    <2> QED
      BY <2>4 DEF k
  <1> QED
    BY <1>4, <1>5

\* A page of the inbox holds the rows of its ranks, and a page that is not
\* full is the last one.
LEMMA PageHolds ==
    ASSUME stamp \in [Msg -> Nat], NEW t \in Seq(Row), NEW page \in Nat \ {0}
    PROVE  LET msgs == get_inbox(t, page)
           IN  /\ msgs \in Seq(Row)
               /\ Len(msgs) # PageSize => Len(t) < page * PageSize
               /\ \A i \in 1..Len(t) :
                     Rank(stamp, t, i) >= (page - 1) * PageSize
                     => Rank(stamp, t, i) >= page * PageSize \/ t[i].id \in Ids(msgs)
  <1> DEFINE a == (page - 1) * PageSize
             b == page * PageSize
             e == IF b < Len(t) THEN b ELSE Len(t)
             msgs == get_inbox(t, page)
  <1>0. a \in Nat /\ b \in Nat /\ b = a + PageSize /\ PageSize \in Nat \ {0}
    BY LimitsAssumption
  <1>1. msgs = SubSeq(Sorted(t), a + 1, e)
    BY DEF get_inbox
  <1>2. /\ Sorted(t) \in Seq(Row) /\ Len(Sorted(t)) = Len(t) /\ Len(t) \in Nat
        /\ \A i \in 1..Len(t) : Sorted(t)[Rank(stamp, t, i) + 1] = t[i]
        /\ \A i \in 1..Len(t) : Rank(stamp, t, i) \in 0..Len(t) - 1
    BY SortedRank, RankBijective, LenProperties
  <1> HIDE DEF a, b, msgs
  <1>3. e \in Nat /\ e <= Len(t) /\ e <= b
    BY <1>0, <1>2
  <1>4. /\ msgs \in Seq(Row)
        /\ Len(msgs) = IF a + 1 <= e THEN e - a ELSE 0
        /\ \A i \in 1..Len(msgs) : msgs[i] = Sorted(t)[a + i]
    <2> HIDE DEF e
    <2>1. \A i \in (a + 1)..e : Sorted(t)[i] \in Row
      BY <1>0, <1>2, <1>3, ElementOfSeq
    <2>2. a + 1 \in Int /\ e \in Int
      BY <1>0, <1>3
    <2>3. /\ SubSeq(Sorted(t), a + 1, e) \in Seq(Row)
          /\ Len(SubSeq(Sorted(t), a + 1, e)) = IF a + 1 <= e THEN e - (a + 1) + 1 ELSE 0
          /\ \A i \in 1..(e - (a + 1) + 1) :
                SubSeq(Sorted(t), a + 1, e)[i] = Sorted(t)[(a + 1) + i - 1]
      BY <2>1, <2>2, SubSeqProperties
    <2>4. \A i \in Nat : (a + 1) + i - 1 = a + i
      BY <1>0
    <2> HIDE DEF e
    <2>5. ASSUME NEW i \in 1..Len(msgs) PROVE msgs[i] = Sorted(t)[a + i]
      <3>1. i \in Nat /\ i \in 1..(e - (a + 1) + 1)
        BY <1>0, <1>1, <1>3, <2>3
      <3> QED
        BY <1>1, <2>3, <2>4, <3>1
    <2> QED
      BY <1>0, <1>1, <1>3, <2>3, <2>5
  <1>5. Len(msgs) # PageSize => Len(t) < b
    BY <1>0, <1>2, <1>4
  <1>6. ASSUME NEW i \in 1..Len(t), Rank(stamp, t, i) >= a, ~(Rank(stamp, t, i) >= b)
        PROVE  t[i].id \in Ids(msgs)
    <2> DEFINE k == Rank(stamp, t, i) - a + 1
    <2>1. Rank(stamp, t, i) \in Nat /\ Rank(stamp, t, i) < e
      BY <1>0, <1>2, <1>6
    <2>2. k \in 1..Len(msgs) /\ a + k = Rank(stamp, t, i) + 1
      BY <1>0, <1>3, <1>4, <1>6, <2>1
    <2>3. msgs[k] = t[i]
      BY <1>2, <1>4, <2>2
    <2> HIDE DEF k
    <2> QED
      BY <2>2, <2>3 DEF Ids
  <1> QED
    BY <1>4, <1>5, <1>6 DEF a, b, msgs
----------------------------------------------------------------------------
(* Types.                                                                  *)

InboxType == [page : Nat, list : Seq(Row), full : BOOLEAN,
              print : BOOLEAN, must : SUBSET Msg]

LEMMA ClosedType == Closed \in InboxType /\ Closed.list = <<>> /\ Closed.must = {}
  <1>1. <<>> \in Seq(Row)
    OBVIOUS
  <1> QED
    BY <1>1 DEF Closed, InboxType

\* What the two steps of the loop over a page leave in the inbox command.
LEMMA PrintEffect ==
    ASSUME inbox \in [Node -> InboxType], NEW n \in Node, InboxPrint(n)
    PROVE  /\ inbox' \in [Node -> InboxType]
           /\ \A k \in Node \ {n} : inbox'[k] = inbox[k]
           /\ inbox'[n].page = inbox[n].page /\ inbox'[n].full = inbox[n].full
           /\ inbox'[n].list = inbox[n].list /\ inbox'[n].print = FALSE
           /\ inbox'[n].must = inbox[n].must \ {Head(inbox[n].list).id}
  <1> DEFINE i1 == [inbox EXCEPT ![n].print = FALSE]
             M  == inbox[n].must \ {Head(inbox[n].list).id}
  <1>1. /\ i1 \in [Node -> InboxType]
        /\ \A k \in Node \ {n} : i1[k] = inbox[k]
        /\ i1[n].page = inbox[n].page /\ i1[n].full = inbox[n].full
        /\ i1[n].list = inbox[n].list /\ i1[n].print = FALSE
        /\ i1[n].must = inbox[n].must
    BY DEF InboxType
  <1>2. inbox' = [i1 EXCEPT ![n].must = @ \ {Head(inbox[n].list).id}]
    BY Zenon DEF InboxPrint
  <1> HIDE DEF i1
  <1>3. inbox' = [i1 EXCEPT ![n].must = M]
    BY <1>1, <1>2
  <1>4. M \in SUBSET Msg
    BY DEF InboxType
  <1> HIDE DEF M
  <1>5. /\ inbox' \in [Node -> InboxType]
        /\ \A k \in Node \ {n} : inbox'[k] = inbox[k]
        /\ inbox'[n].page = inbox[n].page /\ inbox'[n].full = inbox[n].full
        /\ inbox'[n].list = inbox[n].list /\ inbox'[n].print = FALSE
        /\ inbox'[n].must = M
    BY ZenonT(30), <1>1, <1>3, <1>4 DEF InboxType
  <1> QED
    BY <1>5 DEF M

LEMMA MarkEffect ==
    ASSUME inbox \in [Node -> InboxType], NEW n \in Node, InboxMark(n)
    PROVE  /\ inbox' \in [Node -> InboxType]
           /\ \A k \in Node \ {n} : inbox'[k] = inbox[k]
           /\ inbox'[n].page = inbox[n].page /\ inbox'[n].full = inbox[n].full
           /\ inbox'[n].list = Tail(inbox[n].list) /\ inbox'[n].print = TRUE
           /\ inbox'[n].must = inbox[n].must
  <1> DEFINE T == Tail(inbox[n].list)
             i1 == [inbox EXCEPT ![n].list = T]
  <1>0. T \in Seq(Row)
    BY HeadTailProperties DEF InboxMark, InboxType
  <1>2. inbox' = [[inbox EXCEPT ![n].list = Tail(@)] EXCEPT ![n].print = TRUE]
    BY Zenon DEF InboxMark
  <1>3. [inbox EXCEPT ![n].list = Tail(@)] = i1
    OBVIOUS
  <1>4. inbox' = [i1 EXCEPT ![n].print = TRUE]
    BY <1>2, <1>3
  <1> HIDE DEF T
  <1>1. /\ i1 \in [Node -> InboxType]
        /\ \A k \in Node \ {n} : i1[k] = inbox[k]
        /\ i1[n].page = inbox[n].page /\ i1[n].full = inbox[n].full
        /\ i1[n].list = T /\ i1[n].must = inbox[n].must
    BY <1>0 DEF InboxType
  <1> HIDE DEF i1
  <1>5. /\ inbox' \in [Node -> InboxType]
        /\ \A k \in Node \ {n} : inbox'[k] = inbox[k]
        /\ inbox'[n].page = inbox[n].page /\ inbox'[n].full = inbox[n].full
        /\ inbox'[n].list = T /\ inbox'[n].print = TRUE
        /\ inbox'[n].must = inbox[n].must
    BY <1>1, <1>4 DEF InboxType
  <1> QED
    BY <1>5 DEF T

\* What opening a page leaves there.
LEMMA OpenEffect ==
    ASSUME TypeOK, NEW n \in Node, InboxOpen(n)
    PROVE  \E page \in Nat \ {0} :
              LET msgs == get_inbox(db[n], page)
              IN  /\ page = 1 \/ (inbox[n].full /\ page = inbox[n].page + 1)
                  /\ inbox' \in [Node -> InboxType]
                  /\ \A k \in Node \ {n} : inbox'[k] = inbox[k]
                  /\ inbox'[n].page = page /\ inbox'[n].list = msgs
                  /\ inbox'[n].full = (Len(msgs) = PageSize)
                  /\ inbox'[n].print = TRUE
                  /\ inbox'[n].must = IF page = 1 THEN Ids(db[n]) ELSE inbox[n].must
  <1>1. PICK page \in {1} \cup {p \in {inbox[n].page + 1} : inbox[n].full} :
            inbox' = [inbox EXCEPT ![n] =
                  [page |-> page,
                   list |-> get_inbox(db[n], page),
                   full |-> Len(get_inbox(db[n], page)) = PageSize,
                   print |-> TRUE,
                   must |-> IF page = 1 THEN Ids(db[n]) ELSE inbox[n].must]]
    BY DEF InboxOpen
  <1>t. /\ inbox \in [Node -> InboxType] /\ inbox[n] \in InboxType
        /\ inbox[n].page \in Nat /\ inbox[n].must \in SUBSET Msg
        /\ db[n] \in Seq(Row) /\ stamp \in [Msg -> Nat]
    BY DEF TypeOK, InboxType
  <1>p. page = 1 \/ (inbox[n].full /\ page = inbox[n].page + 1)
    BY <1>1, Zenon
  <1>2. page \in Nat \ {0} /\ (page = 1 \/ (inbox[n].full /\ page = inbox[n].page + 1))
    BY <1>t, <1>p
  <1> DEFINE msgs == get_inbox(db[n], page)
             M == IF page = 1 THEN Ids(db[n]) ELSE inbox[n].must
             r == [page |-> page, list |-> msgs, full |-> Len(msgs) = PageSize,
                   print |-> TRUE, must |-> M]
  <1>3. msgs \in Seq(Row)
    BY <1>t, <1>2, PageHolds
  <1>4. M \in SUBSET Msg
    BY <1>t, IdsOf
  <1>5. inbox' = [inbox EXCEPT ![n] = r]
    BY <1>1
  <1> HIDE DEF msgs, M
  <1>6. /\ r \in InboxType /\ r.page = page /\ r.list = msgs
        /\ r.full = (Len(msgs) = PageSize) /\ r.print = TRUE /\ r.must = M
    BY <1>2, <1>3, <1>4 DEF InboxType
  <1> HIDE DEF r
  <1>7. /\ inbox' \in [Node -> InboxType] /\ inbox'[n] = r
        /\ \A k \in Node \ {n} : inbox'[k] = inbox[k]
    BY <1>t, <1>5, <1>6
  <1> QED
    BY <1>2, <1>6, <1>7 DEF msgs, M

\* A write leaves a table, or no trace.
LEMMA WriteEffect ==
    ASSUME db \in [Node -> Seq(Row)], NEW n \in Node,
           NEW t \in Seq(Row), Grows(db[n], t), Write(n, t)
    PROVE  /\ db' \in [Node -> Seq(Row)]
           /\ \A k \in Node : Grows(db[k], db'[k])
           /\ \A k \in Node \ {n} : db'[k] = db[k]
           /\ db'[n] = t \/ db'[n] = db[n]
  <1>1. \A k \in Node : db[k] \in Seq(Row) /\ Grows(db[k], db[k])
    BY GrowsNot, LenProperties
  <1> QED
    BY <1>1 DEF Write

LEMMA InitType == Init => TypeOK
  <1> SUFFICES ASSUME Init PROVE TypeOK
    OBVIOUS
  <1>1. attempt \in [Msg -> 0..RetryLimit - 1]
    BY LimitsAssumption DEF Init
  <1>2. /\ db \in [Node -> Seq(Row)]
        /\ shown \in [Node -> SUBSET Msg]
        /\ up \in [Node -> BOOLEAN]
    BY DEF Init
  <1>3. inbox \in [Node -> InboxType]
    BY ClosedType DEF Init
  <1> QED
    BY <1>1, <1>2, <1>3 DEF Init, TypeOK, InboxType

\* The nodes of a message.
LEMMA Parties ==
    /\ \A m \in Msg : Sender[m] \in Node /\ Rcpt[m] \in Node
    /\ Reader \subseteq Node
  BY PartiesAssumption

\* insert_message changes one table, by at most one row.
LEMMA InsertEffect ==
    ASSUME TypeOK, NEW n \in Node, NEW m \in Msg, NEW r \in BOOLEAN,
           Write(n, insert_message(db[n], m, r))
    PROVE  /\ db' \in [Node -> Seq(Row)]
           /\ \A k \in Node : Grows(db[k], db'[k])
           /\ \A k \in Node \ {n} : db'[k] = db[k]
           /\ Ids(db'[n]) \subseteq Ids(db[n]) \cup {m}
           /\ \A i \in 1..Len(db'[n]) : \/ i \in 1..Len(db[n]) /\ db'[n][i] = db[n][i]
                                        \/ db'[n][i] = [id |-> m, read |-> r]
  <1> DEFINE t == db[n]
             u == insert_message(t, m, r)
  <1>1. db \in [Node -> Seq(Row)] /\ t \in Seq(Row)
    BY DEF TypeOK
  <1> HIDE DEF t
  <1>2. /\ u \in Seq(Row) /\ Grows(t, u)
        /\ Ids(u) \subseteq Ids(t) \cup {m}
        /\ \A i \in 1..Len(u) : \/ i \in 1..Len(t) /\ u[i] = t[i]
                                \/ u[i] = [id |-> m, read |-> r]
    BY <1>1, InsertGrows
  <1>3. Write(n, u)
    BY DEF t
  <1> HIDE DEF u
  <1>4. /\ db' \in [Node -> Seq(Row)]
        /\ \A k \in Node : Grows(db[k], db'[k])
        /\ \A k \in Node \ {n} : db'[k] = db[k]
        /\ db'[n] = u \/ db'[n] = t
    BY <1>1, <1>2, <1>3, WriteEffect DEF t
  <1> QED
    BY <1>2, <1>4 DEF t

\* Marking changes one table, and sets the flag of one message.
LEMMA MarkedEffect ==
    ASSUME TypeOK, NEW n \in Node, InboxMark(n)
    PROVE  LET x == Head(inbox[n].list).id
           IN  /\ x \in Msg
               /\ db' \in [Node -> Seq(Row)]
               /\ \A k \in Node : Grows(db[k], db'[k])
               /\ \A k \in Node \ {n} : db'[k] = db[k]
               /\ Ids(db'[n]) = Ids(db[n]) /\ Len(db'[n]) = Len(db[n])
               /\ \A i \in 1..Len(db[n]) :
                     db'[n][i].read => db[n][i].read \/ db[n][i].id = x
  <1> DEFINE x == Head(inbox[n].list).id
             t == db[n]
             u == mark_message_read(t, x)
  <1>1. db \in [Node -> Seq(Row)] /\ t \in Seq(Row) /\ Len(t) \in Nat
    BY LenProperties DEF TypeOK
  <1>2. x \in Msg
    <2>1. inbox[n].list \in Seq(Row) /\ inbox[n].list # <<>>
      BY DEF InboxMark, TypeOK
    <2> QED
      BY <2>1, RowType, HeadTailProperties
  <1>3. UNCHANGED db \/ Write(n, u)
    BY DEF InboxMark
  <1> HIDE DEF x, t
  <1>4. /\ u \in Seq(Row) /\ Grows(t, u)
        /\ Ids(u) = Ids(t) /\ Len(u) = Len(t)
        /\ \A i \in 1..Len(t) : u[i].read => t[i].read \/ t[i].id = x
    BY <1>1, <1>2, MarkGrows
  <1> HIDE DEF u
  <1>5. /\ db' \in [Node -> Seq(Row)]
        /\ \A k \in Node : Grows(db[k], db'[k])
        /\ \A k \in Node \ {n} : db'[k] = db[k]
        /\ db'[n] = u \/ db'[n] = t
    <2>1. CASE UNCHANGED db
      <3>1. \A k \in Node : Len(db[k]) \in Nat
        BY LenProperties, <1>1
      <3> QED
        BY <1>1, <2>1, <3>1, GrowsNot DEF t
    <2>2. CASE Write(n, u)
      BY <1>1, <1>4, <2>2, WriteEffect DEF t
    <2> QED
      BY <1>3, <2>1, <2>2
  <1> QED
    BY <1>2, <1>4, <1>5 DEF t, x

\* These are the steps that write a messages table.
LEMMA Writers ==
    ASSUME [Next]_vars
    PROVE  \/ UNCHANGED db
           \/ \E m \in Msg : RecordOwn(m) \/ handle_msg_receive(m)
           \/ \E n \in Node : InboxMark(n)
  <1>1. ASSUME NEW m \in Msg, send_msg(m) \/ LoseFrame(m) \/ SenderCrash(m)
        PROVE  UNCHANGED db \/ RecordOwn(m)
    BY <1>1 DEF send_msg, MsgRefused, MsgBegin, SendPacket, SendPacketFails,
                LoseFrame, SenderCrash
  <1>2. ASSUME NEW n \in Node, cmd_inbox(n) \/ InboxAbort(n)
        PROVE  UNCHANGED db \/ InboxMark(n)
    BY <1>2 DEF cmd_inbox, InboxOpen, InboxPrint, InboxAbort
  <1>3. ASSUME NEW n \in Node, ReceiverCrash(n) \/ ReceiverRestart(n)
        PROVE  UNCHANGED db
    BY <1>3 DEF ReceiverCrash, ReceiverRestart
  <1> QED
    BY <1>1, <1>2, <1>3, Parties DEF Next, vars

\* A step only adds rows or marks rows read.
LEMMA TableSteps ==
    ASSUME TypeOK, [Next]_vars
    PROVE  /\ db' \in [Node -> Seq(Row)]
           /\ \A n \in Node : Grows(db[n], db'[n])
  <1>1. ASSUME NEW m \in Msg, RecordOwn(m)
        PROVE  /\ db' \in [Node -> Seq(Row)]
               /\ \A n \in Node : Grows(db[n], db'[n])
    BY <1>1, Parties, InsertEffect DEF RecordOwn
  <1>2. ASSUME NEW m \in Msg, handle_msg_receive(m)
        PROVE  /\ db' \in [Node -> Seq(Row)]
               /\ \A n \in Node : Grows(db[n], db'[n])
    BY <1>2, Parties, InsertEffect DEF handle_msg_receive
  <1>3. ASSUME NEW n \in Node, InboxMark(n)
        PROVE  /\ db' \in [Node -> Seq(Row)]
               /\ \A k \in Node : Grows(db[k], db'[k])
    BY <1>3, MarkedEffect
  <1>4. CASE UNCHANGED db
    <2>1. \A n \in Node : db[n] \in Seq(Row) /\ Grows(db[n], db[n])
      BY GrowsNot, LenProperties DEF TypeOK
    <2> QED
      BY <1>4, <2>1 DEF TypeOK
  <1> QED
    BY <1>1, <1>2, <1>3, <1>4, Writers

LEMMA NextType == TypeOK /\ [Next]_vars => TypeOK'
  <1> SUFFICES ASSUME TypeOK, [Next]_vars PROVE TypeOK'
    OBVIOUS
  <1>d. db' \in [Node -> Seq(Row)]
    BY TableSteps
  <1>0. 0 \in 0..RetryLimit - 1
    BY LimitsAssumption
  <1>i. inbox \in [Node -> InboxType]
    BY DEF TypeOK, InboxType
  <1>1. ASSUME NEW m \in Msg, MsgRefused(m) PROVE TypeOK'
    BY <1>1 DEF MsgRefused, TypeOK
  <1>2. ASSUME NEW m \in Msg, MsgBegin(m) PROVE TypeOK'
    <2>1. PICK ts \in Stamp : stamp' = [stamp EXCEPT ![m] = ts]
      BY <1>2 DEF MsgBegin
    <2>2. stamp' \in [Msg -> Nat]
      BY <2>1, StampAssumption DEF TypeOK
    <2> QED
      BY <1>2, <2>2 DEF MsgBegin, TypeOK
  <1>3. ASSUME NEW m \in Msg, SendPacket(m) PROVE TypeOK'
    BY <1>3, <1>0 DEF SendPacket, TypeOK
  <1>4. ASSUME NEW m \in Msg, SendPacketFails(m) PROVE TypeOK'
    <2>1. attempt[m] \in 0..RetryLimit - 1
      BY DEF TypeOK
    <2>2. RetryLeft(m) => attempt[m] + 1 \in 0..RetryLimit - 1
      BY <2>1, LimitsAssumption DEF RetryLeft
    <2>3. attempt' \in [Msg -> 0..RetryLimit - 1]
      BY <1>4, <1>0, <2>1, <2>2 DEF SendPacketFails, TypeOK
    <2>4. mpc' \in [Msg -> {"idle", "try", "record", "sent", "failed", "crashed"}]
      BY <1>4 DEF SendPacketFails, TypeOK
    <2> QED
      BY <1>4, <2>3, <2>4 DEF SendPacketFails, TypeOK
  <1>5. ASSUME NEW m \in Msg, RecordOwn(m) PROVE TypeOK'
    BY <1>5, <1>d DEF RecordOwn, TypeOK
  <1>6. ASSUME NEW m \in Msg, handle_msg_receive(m) PROVE TypeOK'
    BY <1>6, <1>d DEF handle_msg_receive, TypeOK
  <1>7. ASSUME NEW m \in Msg, LoseFrame(m) PROVE TypeOK'
    BY <1>7 DEF LoseFrame, TypeOK
  <1>8. ASSUME NEW m \in Msg, SenderCrash(m) PROVE TypeOK'
    BY <1>8, <1>0 DEF SenderCrash, TypeOK
  <1>9. ASSUME NEW n \in Node, InboxOpen(n) PROVE TypeOK'
    <2>1. inbox' \in [Node -> InboxType]
      BY <1>9, OpenEffect
    <2> QED
      BY <1>9, <2>1 DEF InboxOpen, TypeOK, InboxType
  <1>10. ASSUME NEW n \in Node, InboxPrint(n) PROVE TypeOK'
    <2>1. inbox' \in [Node -> InboxType]
      BY <1>10, <1>i, PrintEffect
    <2>2. Head(inbox[n].list).id \in Msg
      <3>1. inbox[n].list \in Seq(Row) /\ inbox[n].list # <<>>
        BY <1>10 DEF InboxPrint, TypeOK
      <3> QED
        BY <3>1, RowType, HeadTailProperties
    <2>3. shown' \in [Node -> SUBSET Msg]
      BY <1>10, <2>2 DEF InboxPrint, TypeOK
    <2> QED
      BY <1>10, <2>1, <2>3 DEF InboxPrint, TypeOK, InboxType
  <1>11. ASSUME NEW n \in Node, InboxMark(n) PROVE TypeOK'
    <2>1. inbox' \in [Node -> InboxType]
      BY <1>11, <1>i, MarkEffect
    <2> QED
      BY <1>11, <1>d, <2>1 DEF InboxMark, TypeOK, InboxType
  <1>12. ASSUME NEW n \in Node, InboxAbort(n) PROVE TypeOK'
    <2>1. inbox' \in [Node -> InboxType]
      BY <1>12, <1>i, ClosedType DEF InboxAbort
    <2> QED
      BY <1>12, <2>1 DEF InboxAbort, TypeOK, InboxType
  <1>13. ASSUME NEW n \in Node, ReceiverCrash(n) PROVE TypeOK'
    <2>1. /\ frame' \in [Msg -> {"none", "sent", "handled", "lost"}]
          /\ up' \in [Node -> BOOLEAN]
      BY <1>13 DEF ReceiverCrash, TypeOK
    <2> QED
      BY <1>13, <2>1 DEF ReceiverCrash, TypeOK
  <1>14. ASSUME NEW n \in Node, ReceiverRestart(n) PROVE TypeOK'
    BY <1>14 DEF ReceiverRestart, TypeOK
  <1>15. CASE UNCHANGED vars
    BY <1>15 DEF vars, TypeOK
  <1> QED
    BY <1>1, <1>2, <1>3, <1>4, <1>5, <1>6, <1>7, <1>8, <1>9, <1>10, <1>11,
       <1>12, <1>13, <1>14, <1>15, Parties DEF Next, send_msg, cmd_inbox

\* Every reachable state is well typed: in particular send_msg makes at most
\* RetryLimit attempts, and what get_inbox returns are rows of the table.
THEOREM TypeCorrect == Spec => []TypeOK
  BY InitType, NextType, PTL DEF Spec

\* A message is never unread again and a row keeps its place: insert_message
\* ignores an id it has, and mark_message_read only ever sets the flag.
THEOREM ReadingSticks == Spec => ReadSticks
  <1>1. TypeOK /\ [Next]_vars
        => [\A n \in Node : \A i \in 1..Len(db[n]) :
                /\ Len(db'[n]) >= Len(db[n])
                /\ db'[n][i].id = db[n][i].id
                /\ db[n][i].read => db'[n][i].read]_vars
    BY TableSteps DEF Grows
  <1> QED
    BY <1>1, TypeCorrect, PTL DEF Spec, ReadSticks
----------------------------------------------------------------------------
(* Sending.                                                                *)

\* Before an attempt has succeeded there is no frame and nobody has a row.
\* FailureIsFinal says so of the end only, which no step can tell apart from
\* a failure that comes too late.
Unsent ==
    \A m \in Msg : mpc[m] \in {"idle", "try", "failed"}
                    => frame[m] = "none" /\ \A n \in Node : m \notin Ids(db[n])

LEMMA InitUnsent == Init => Unsent
  <1> SUFFICES ASSUME Init PROVE Unsent
    OBVIOUS
  <1>1. \A n \in Node : Ids(db[n]) = {}
    BY DEF Init, Ids
  <1> QED
    BY <1>1 DEF Init, Unsent

\* A row that a step adds belongs to a message that is out.
LEMMA NewRows ==
    ASSUME TypeOK, [Next]_vars, NEW n \in Node, NEW m \in Msg,
           m \in Ids(db'[n]), m \notin Ids(db[n])
    PROVE  \/ RecordOwn(m) /\ n = Sender[m]
           \/ handle_msg_receive(m) /\ n = Rcpt[m]
  <1>1. ASSUME NEW x \in Msg, RecordOwn(x) PROVE x = m /\ n = Sender[x]
    <2> DEFINE s == Sender[x]
    <2>1. s \in Node /\ Write(s, insert_message(db[s], x, TRUE))
      BY <1>1, Parties DEF RecordOwn
    <2> HIDE DEF s
    <2>2. /\ \A k \in Node \ {s} : db'[k] = db[k]
          /\ Ids(db'[s]) \subseteq Ids(db[s]) \cup {x}
      BY <2>1, InsertEffect
    <2> QED
      BY <2>2 DEF s
  <1>2. ASSUME NEW x \in Msg, handle_msg_receive(x) PROVE x = m /\ n = Rcpt[x]
    <2> DEFINE s == Rcpt[x]
    <2>1. s \in Node /\ Write(s, insert_message(db[s], x, FALSE))
      BY <1>2, Parties DEF handle_msg_receive
    <2> HIDE DEF s
    <2>2. /\ \A k \in Node \ {s} : db'[k] = db[k]
          /\ Ids(db'[s]) \subseteq Ids(db[s]) \cup {x}
      BY <2>1, InsertEffect
    <2> QED
      BY <2>2 DEF s
  <1>3. ASSUME NEW k \in Node, InboxMark(k) PROVE FALSE
    BY <1>3, MarkedEffect
  <1> QED
    BY <1>1, <1>2, <1>3, Writers

LEMMA NextUnsent == TypeOK /\ Unsent /\ [Next]_vars => Unsent'
  <1> SUFFICES ASSUME TypeOK, Unsent, [Next]_vars,
                      NEW m \in Msg, mpc'[m] \in {"idle", "try", "failed"}
               PROVE  frame'[m] = "none" /\ \A n \in Node : m \notin Ids(db'[n])
    BY DEF Unsent
  <1>t. mpc \in [Msg -> {"idle", "try", "record", "sent", "failed", "crashed"}]
    BY DEF TypeOK
  <1>f. frame \in [Msg -> {"none", "sent", "handled", "lost"}]
    BY DEF TypeOK
  <1>1. ASSUME NEW x \in Msg, send_msg(x)
        PROVE  /\ mpc[m] \in {"idle", "try", "failed"}
               /\ frame'[m] = frame[m]
    BY <1>1, <1>t, <1>f DEF send_msg, MsgRefused, MsgBegin, SendPacket,
                            SendPacketFails, RecordOwn
  <1>2. ASSUME NEW x \in Msg, handle_msg_receive(x) \/ LoseFrame(x) \/ SenderCrash(x)
        PROVE  /\ mpc[m] \in {"idle", "try", "failed"}
               /\ frame[m] = "none" => frame'[m] = frame[m]
    BY <1>2, <1>t, <1>f DEF handle_msg_receive, LoseFrame, SenderCrash
  <1>3. ASSUME NEW n \in Node, cmd_inbox(n) \/ InboxAbort(n)
        PROVE  mpc[m] \in {"idle", "try", "failed"} /\ frame'[m] = frame[m]
    BY <1>3 DEF cmd_inbox, InboxOpen, InboxPrint, InboxMark, InboxAbort
  <1>4. ASSUME NEW n \in Node, ReceiverCrash(n) \/ ReceiverRestart(n)
        PROVE  /\ mpc[m] \in {"idle", "try", "failed"}
               /\ frame[m] = "none" => frame'[m] = frame[m]
    BY <1>4, <1>f DEF ReceiverCrash, ReceiverRestart
  <1>5. /\ mpc[m] \in {"idle", "try", "failed"}
        /\ frame[m] = "none" => frame'[m] = frame[m]
    BY <1>1, <1>2, <1>3, <1>4, Parties DEF Next, vars
  <1>6. frame[m] = "none" /\ \A n \in Node : m \notin Ids(db[n])
    BY <1>5 DEF Unsent
  <1>7. ASSUME NEW n \in Node, m \in Ids(db'[n]) PROVE FALSE
    <2>1. RecordOwn(m) \/ handle_msg_receive(m)
      BY <1>6, <1>7, NewRows
    <2> QED
      BY <1>5, <1>6, <2>1 DEF RecordOwn, handle_msg_receive
  <1> QED
    BY <1>5, <1>6, <1>7

\* When send_msg reports failure, the recipient has no copy and no frame is on
\* its way, whatever was retried, lost or crashed before.
THEOREM FailuresAreFinal == Spec => []FailureIsFinal
  <1>1. Unsent => FailureIsFinal
    BY Parties DEF Unsent, FailureIsFinal
  <1> QED
    BY <1>1, InitUnsent, NextUnsent, TypeCorrect, PTL DEF Spec
----------------------------------------------------------------------------
(* Reading.                                                                *)

\* When the loop of cmd_inbox comes to mark a message, it has printed it.
HeadShown ==
    \A n \in Node : ~inbox[n].print /\ inbox[n].list # <<>>
                     => Head(inbox[n].list).id \in shown[n] \ inbox[n].must

LEMMA InitHead == Init => HeadShown /\ ReadWasShown
  <1> SUFFICES ASSUME Init PROVE HeadShown /\ ReadWasShown
    OBVIOUS
  <1>1. \A n \in Node : inbox[n].list = <<>> /\ db[n] = <<>>
    BY ClosedType DEF Init
  <1> QED
    BY <1>1 DEF HeadShown, ReadWasShown

\* Nothing but the inbox command touches its state, and nothing is unseen.
LEMMA ShownGrows ==
    ASSUME TypeOK, [Next]_vars
    PROVE  \A n \in Node : shown[n] \subseteq shown'[n]
  <1>1. ASSUME NEW n \in Node, InboxPrint(n) PROVE \A k \in Node : shown[k] \subseteq shown'[k]
    BY <1>1 DEF InboxPrint, TypeOK
  <1>2. ASSUME NEW n \in Node, cmd_inbox(n) \/ InboxAbort(n)
        PROVE  UNCHANGED shown \/ InboxPrint(n)
    BY <1>2 DEF cmd_inbox, InboxOpen, InboxMark, InboxAbort
  <1>3. ASSUME NEW m \in Msg,
               send_msg(m) \/ handle_msg_receive(m) \/ LoseFrame(m) \/ SenderCrash(m)
        PROVE  UNCHANGED shown
    BY <1>3 DEF send_msg, MsgRefused, MsgBegin, SendPacket, SendPacketFails,
                RecordOwn, handle_msg_receive, LoseFrame, SenderCrash
  <1>4. ASSUME NEW n \in Node, ReceiverCrash(n) \/ ReceiverRestart(n)
        PROVE  UNCHANGED shown
    BY <1>4 DEF ReceiverCrash, ReceiverRestart
  <1> QED
    BY <1>1, <1>2, <1>3, <1>4, Parties DEF Next, vars

LEMMA InboxOwn ==
    ASSUME [Next]_vars
    PROVE  UNCHANGED inbox \/ \E n \in Node : cmd_inbox(n) \/ InboxAbort(n)
  <1>1. ASSUME NEW m \in Msg,
               send_msg(m) \/ handle_msg_receive(m) \/ LoseFrame(m) \/ SenderCrash(m)
        PROVE  UNCHANGED inbox
    BY <1>1 DEF send_msg, MsgRefused, MsgBegin, SendPacket, SendPacketFails,
                RecordOwn, handle_msg_receive, LoseFrame, SenderCrash
  <1>2. ASSUME NEW n \in Node, ReceiverCrash(n) \/ ReceiverRestart(n)
        PROVE  UNCHANGED inbox
    BY <1>2 DEF ReceiverCrash, ReceiverRestart
  <1> QED
    BY <1>1, <1>2, Parties DEF Next, vars

LEMMA NextHead == TypeOK /\ HeadShown /\ [Next]_vars => HeadShown'
  <1> SUFFICES ASSUME TypeOK, HeadShown, [Next]_vars,
                      NEW k \in Node, ~inbox'[k].print, inbox'[k].list # <<>>
               PROVE  Head(inbox'[k].list).id \in shown'[k] \ inbox'[k].must
    BY DEF HeadShown
  <1>i. inbox \in [Node -> InboxType]
    BY DEF TypeOK, InboxType
  <1>1. CASE inbox'[k] = inbox[k]
    BY <1>1, ShownGrows DEF HeadShown
  <1>2. ASSUME NEW n \in Node, InboxOpen(n) PROVE inbox'[k] = inbox[k]
    BY <1>2, OpenEffect
  <1>3. ASSUME NEW n \in Node, InboxMark(n) PROVE inbox'[k] = inbox[k]
    BY <1>3, <1>i, MarkEffect
  <1>4. ASSUME NEW n \in Node, InboxAbort(n) PROVE inbox'[k] = inbox[k]
    BY <1>4, <1>i, ClosedType DEF InboxAbort
  <1>5. ASSUME NEW n \in Node, InboxPrint(n), inbox'[k] # inbox[k]
        PROVE  Head(inbox'[k].list).id \in shown'[k] \ inbox'[k].must
    <2>1. n = k
      BY <1>5, <1>i, PrintEffect
    <2>2. /\ inbox'[k].list = inbox[k].list
          /\ inbox'[k].must = inbox[k].must \ {Head(inbox[k].list).id}
      BY <1>5, <1>i, <2>1, PrintEffect
    <2>3. Head(inbox[k].list).id \in shown'[k]
      BY <1>5, <2>1 DEF InboxPrint, TypeOK
    <2> QED
      BY <2>2, <2>3
  <1> QED
    BY <1>1, <1>2, <1>3, <1>4, <1>5, InboxOwn DEF cmd_inbox

LEMMA NextRead == TypeOK /\ HeadShown /\ ReadWasShown /\ [Next]_vars => ReadWasShown'
  <1> SUFFICES ASSUME TypeOK, HeadShown, ReadWasShown, [Next]_vars,
                      NEW k \in Node, NEW i \in 1..Len(db'[k]), db'[k][i].read,
                      Sender[db'[k][i].id] # k
               PROVE  db'[k][i].id \in shown'[k]
    BY DEF ReadWasShown
  <1>t. db \in [Node -> Seq(Row)] /\ db[k] \in Seq(Row)
    BY DEF TypeOK
  <1>s. shown[k] \subseteq shown'[k]
    BY ShownGrows
  <1>1. CASE i \in 1..Len(db[k]) /\ db'[k][i] = db[k][i]
    BY <1>1, <1>s DEF ReadWasShown
  <1>2. ASSUME NEW m \in Msg, RecordOwn(m) PROVE db'[k][i].id \in shown'[k]
    <2> DEFINE s == Sender[m]
    <2>1. s \in Node /\ Write(s, insert_message(db[s], m, TRUE))
      BY <1>2, Parties DEF RecordOwn
    <2>h. s = Sender[m]
      OBVIOUS
    <2> HIDE DEF s
    <2>2. /\ \A j \in Node \ {s} : db'[j] = db[j]
          /\ \A j \in 1..Len(db'[s]) :
                \/ j \in 1..Len(db[s]) /\ db'[s][j] = db[s][j]
                \/ db'[s][j] = [id |-> m, read |-> TRUE]
      BY ZenonT(30), <2>1, InsertEffect
    <2>3. CASE s # k
      BY <1>1, <2>2, <2>3
    <2>4. CASE s = k /\ db'[k][i] = [id |-> m, read |-> TRUE]
      <3>1. db'[k][i].id = m
        BY <2>4
      <3> QED
        BY <2>h, <2>4, <3>1
    <2> QED
      BY <1>1, <2>2, <2>3, <2>4
  <1>3. ASSUME NEW m \in Msg, handle_msg_receive(m) PROVE db'[k][i].id \in shown'[k]
    <2> DEFINE s == Rcpt[m]
    <2>1. s \in Node /\ Write(s, insert_message(db[s], m, FALSE))
      BY <1>3, Parties DEF handle_msg_receive
    <2>h. s = Rcpt[m]
      OBVIOUS
    <2> HIDE DEF s
    <2>2. /\ \A j \in Node \ {s} : db'[j] = db[j]
          /\ \A j \in 1..Len(db'[s]) :
                \/ j \in 1..Len(db[s]) /\ db'[s][j] = db[s][j]
                \/ db'[s][j] = [id |-> m, read |-> FALSE]
      BY ZenonT(30), <2>1, InsertEffect
    <2>3. CASE s # k
      BY <1>1, <2>2, <2>3
    <2>4. CASE s = k /\ db'[k][i] = [id |-> m, read |-> FALSE]
      BY <2>h, <2>4
    <2> QED
      BY <1>1, <2>2, <2>3, <2>4
  <1>4. ASSUME NEW n \in Node, InboxMark(n) PROVE db'[k][i].id \in shown'[k]
    <2> DEFINE x == Head(inbox[n].list).id
    <2>1. x \in shown[n]
      BY <1>4 DEF InboxMark, HeadShown
    <2>2. CASE n = k
      <3>1. /\ i \in 1..Len(db[k]) /\ db'[k][i].id = db[k][i].id
            /\ db[k][i].read \/ db[k][i].id = x
        BY <1>4, <2>2, MarkedEffect DEF Grows
      <3> QED
        BY <1>s, <2>1, <2>2, <3>1 DEF ReadWasShown
    <2>3. CASE n # k
      BY <1>1, <1>4, <2>3, MarkedEffect
    <2> QED
      BY <2>2, <2>3
  <1> QED
    BY <1>1, <1>2, <1>3, <1>4, Writers

\* A message marked read in the recipient's table has been displayed there:
\* cmd_inbox prints before it marks, and marks by id only what it has printed.
THEOREM ReadMessagesWereShown == Spec => []ReadWasShown
  BY InitHead, NextHead, NextRead, TypeCorrect, PTL DEF Spec
----------------------------------------------------------------------------
(* Reading page after page.                                                *)

\* What is still to be seen is on the page being shown or on a later one. A
\* message that arrives can move a row to a later page, never to an earlier
\* one, and so not past the reader.
Later(n, m) ==
    \E i \in 1..Len(db[n]) : /\ db[n][i].id = m
                             /\ Rank(stamp, db[n], i) >= inbox[n].page * PageSize
WalkAt(n) ==
    /\ \A m \in inbox[n].must : m \in Ids(inbox[n].list) \/ Later(n, m)
    /\ ~inbox[n].full => inbox[n].must \subseteq Ids(inbox[n].list)
Walk == \A n \in Node : WalkAt(n)

LEMMA InitWalk == Init => Walk
  <1> SUFFICES ASSUME Init, NEW n \in Node PROVE WalkAt(n)
    BY DEF Walk
  <1>1. inbox[n].must = {}
    BY ClosedType DEF Init
  <1> QED
    BY <1>1 DEF WalkAt

\* A message that is stored somewhere keeps its timestamp.
LEMMA StampStays ==
    ASSUME TypeOK, Unsent, [Next]_vars, NEW n \in Node, NEW m \in Ids(db[n])
    PROVE  stamp'[m] = stamp[m]
  <1>0. m \in Msg
    <2>1. db[n] \in Seq(Row)
      BY DEF TypeOK
    <2>2. PICK i \in 1..Len(db[n]) : db[n][i].id = m
      BY DEF Ids
    <2> QED
      BY <2>1, <2>2, IdsOf
  <1>1. ASSUME NEW x \in Msg, MsgBegin(x) PROVE stamp'[m] = stamp[m]
    <2>1. x # m
      BY <1>1 DEF MsgBegin, Unsent
    <2> QED
      BY <1>0, <1>1, <2>1 DEF MsgBegin, TypeOK
  <1>2. ASSUME NEW x \in Msg,
               send_msg(x) \/ handle_msg_receive(x) \/ LoseFrame(x) \/ SenderCrash(x)
        PROVE  UNCHANGED stamp \/ MsgBegin(x)
    BY <1>2 DEF send_msg, MsgRefused, SendPacket, SendPacketFails, RecordOwn,
                handle_msg_receive, LoseFrame, SenderCrash
  <1>3. ASSUME NEW k \in Node, cmd_inbox(k) \/ InboxAbort(k) \/ ReceiverCrash(k)
                               \/ ReceiverRestart(k)
        PROVE  UNCHANGED stamp
    BY <1>3 DEF cmd_inbox, InboxOpen, InboxPrint, InboxMark, InboxAbort,
                ReceiverCrash, ReceiverRestart
  <1> QED
    BY <1>1, <1>2, <1>3, Parties DEF Next, vars

\* A row never moves towards the front of the inbox.
LEMMA RowsAfter ==
    ASSUME TypeOK, Unsent, [Next]_vars, NEW n \in Node, NEW i \in 1..Len(db[n])
    PROVE  /\ i \in 1..Len(db'[n])
           /\ db'[n][i].id = db[n][i].id
           /\ Rank(stamp, db[n], i) \in Nat
           /\ Rank(stamp', db'[n], i) \in Nat
           /\ Rank(stamp, db[n], i) <= Rank(stamp', db'[n], i)
  <1>1. /\ db[n] \in Seq(Row) /\ db'[n] \in Seq(Row) /\ Grows(db[n], db'[n])
        /\ Len(db[n]) \in Nat /\ Len(db'[n]) \in Nat
    BY TableSteps, LenProperties DEF TypeOK
  <1>2. stamp \in [Msg -> Nat] /\ stamp' \in [Msg -> Nat]
    BY NextType DEF TypeOK
  <1>3. \A m \in Ids(db[n]) : stamp'[m] = stamp[m]
    BY StampStays
  <1>4. Rank(stamp, db[n], i) <= Rank(stamp', db'[n], i)
    BY <1>1, <1>2, <1>3, RankGrows
  <1>5. Rank(stamp, db[n], i) \in Nat /\ Rank(stamp', db'[n], i) \in Nat
    BY <1>1, AboveFinite
  <1> QED
    BY <1>1, <1>4, <1>5 DEF Grows

\* A step that leaves the page number alone does not move a message out of what
\* is still to come.
LEMMA LaterStays ==
    ASSUME TypeOK, Unsent, [Next]_vars, NEW n \in Node, NEW m, Later(n, m),
           inbox'[n].page = inbox[n].page
    PROVE  Later(n, m)'
  <1>1. PICK i \in 1..Len(db[n]) : /\ db[n][i].id = m
                                   /\ Rank(stamp, db[n], i) >= inbox[n].page * PageSize
    BY DEF Later
  <1>2. inbox[n].page \in Nat /\ PageSize \in Nat
    BY LimitsAssumption DEF TypeOK
  <1>3. inbox[n].page * PageSize \in Nat
    BY <1>2
  <1>4. /\ i \in 1..Len(db'[n]) /\ db'[n][i].id = m
        /\ Rank(stamp', db'[n], i) >= inbox'[n].page * PageSize
    BY <1>1, <1>3, RowsAfter
  <1> QED
    BY <1>4 DEF Later

LEMMA NextWalk ==
    TypeOK /\ Unsent /\ HeadShown /\ Walk /\ [Next]_vars => Walk'
  <1> SUFFICES ASSUME TypeOK, Unsent, HeadShown, Walk, [Next]_vars, NEW k \in Node
               PROVE  WalkAt(k)'
    BY DEF Walk
  <1>i. inbox \in [Node -> InboxType]
    BY DEF TypeOK, InboxType
  <1>w. WalkAt(k)
    BY DEF Walk
  <1>1. CASE inbox'[k] = inbox[k]
    BY <1>1, <1>w, LaterStays DEF WalkAt
  <1>2. CASE InboxOpen(k)
    <2>1. PICK page \in Nat \ {0} :
              /\ page = 1 \/ (inbox[k].full /\ page = inbox[k].page + 1)
              /\ inbox'[k].page = page /\ inbox'[k].list = get_inbox(db[k], page)
              /\ inbox'[k].full = (Len(get_inbox(db[k], page)) = PageSize)
              /\ inbox'[k].must = IF page = 1 THEN Ids(db[k]) ELSE inbox[k].must
      BY <1>2, OpenEffect
    <2> DEFINE msgs == get_inbox(db[k], page)
    <2>2. /\ db[k] \in Seq(Row) /\ stamp \in [Msg -> Nat] /\ Len(db[k]) \in Nat
          /\ inbox[k].page \in Nat /\ PageSize \in Nat \ {0}
          /\ UNCHANGED <<db, stamp>> /\ inbox[k].list = <<>>
      BY <1>2, LenProperties, LimitsAssumption DEF InboxOpen, TypeOK
    <2>3. /\ Len(msgs) # PageSize => Len(db[k]) < page * PageSize
          /\ \A i \in 1..Len(db[k]) :
                Rank(stamp, db[k], i) >= (page - 1) * PageSize
                => Rank(stamp, db[k], i) >= page * PageSize \/ db[k][i].id \in Ids(msgs)
      BY <2>2, PageHolds
    <2> HIDE DEF msgs
    <2>4. ASSUME NEW m \in inbox'[k].must
          PROVE  \E i \in 1..Len(db[k]) : /\ db[k][i].id = m
                                          /\ Rank(stamp, db[k], i) >= (page - 1) * PageSize
      <3>1. CASE page = 1
        <4>1. PICK i \in 1..Len(db[k]) : db[k][i].id = m
          BY <2>1, <3>1, <2>4 DEF Ids
        <4>2. Rank(stamp, db[k], i) \in Nat /\ (page - 1) * PageSize = 0
          BY <2>2, <3>1, RankBijective
        <4> QED
          BY <4>1, <4>2
      <3>2. CASE page # 1
        <4>1. m \in inbox[k].must /\ page - 1 = inbox[k].page
          BY <2>1, <2>2, <2>4, <3>2
        <4>2. Ids(inbox[k].list) = {}
          BY <2>2 DEF Ids
        <4>3. Later(k, m)
          BY <1>w, <4>1, <4>2 DEF WalkAt
        <4> QED
          BY <4>1, <4>3 DEF Later
      <3> QED
        BY <3>1, <3>2
    <2>5. ASSUME NEW m \in inbox'[k].must
          PROVE  \/ m \in Ids(msgs)
                 \/ \E i \in 1..Len(db[k]) : /\ db[k][i].id = m
                                             /\ Rank(stamp, db[k], i) >= page * PageSize
      BY <2>3, <2>4
    <2>6. ASSUME NEW m \in inbox'[k].must, Len(msgs) # PageSize PROVE m \in Ids(msgs)
      <3>1. page * PageSize \in Nat
        BY <2>2
      <3>2. \A i \in 1..Len(db[k]) : Rank(stamp, db[k], i) \in 0..Len(db[k]) - 1
        BY <2>2, RankBijective
      <3>3. \A i \in 1..Len(db[k]) : ~(Rank(stamp, db[k], i) >= page * PageSize)
        BY <2>2, <2>3, <2>6, <3>1, <3>2
      <3> QED
        BY <2>5, <3>3
    <2>7. inbox'[k].list = msgs /\ (~inbox'[k].full => Len(msgs) # PageSize)
      BY <2>1 DEF msgs
    <2>8. \A m \in inbox'[k].must : m \in Ids(inbox'[k].list) \/ Later(k, m)'
      BY <2>1, <2>2, <2>5, <2>7 DEF Later
    <2>9. ~inbox'[k].full => inbox'[k].must \subseteq Ids(inbox'[k].list)
      BY <2>6, <2>7
    <2> QED
      BY <2>8, <2>9 DEF WalkAt
  <1>3. CASE InboxPrint(k)
    <2>1. /\ inbox'[k].page = inbox[k].page /\ inbox'[k].full = inbox[k].full
          /\ inbox'[k].list = inbox[k].list
          /\ inbox'[k].must \subseteq inbox[k].must
      BY <1>3, <1>i, PrintEffect
    <2> QED
      BY <1>w, <2>1, LaterStays DEF WalkAt
  <1>4. CASE InboxMark(k)
    <2>1. /\ inbox'[k].page = inbox[k].page /\ inbox'[k].full = inbox[k].full
          /\ inbox'[k].list = Tail(inbox[k].list)
          /\ inbox'[k].must = inbox[k].must
      BY <1>4, <1>i, MarkEffect
    <2>2. ASSUME NEW m \in inbox[k].must, m \in Ids(inbox[k].list)
          PROVE  m \in Ids(Tail(inbox[k].list))
      <3> DEFINE l == inbox[k].list
      <3>1. l \in Seq(Row) /\ l # <<>> /\ Head(l).id # m
        BY <1>4 DEF InboxMark, HeadShown, TypeOK
      <3> HIDE DEF l
      <3>2. PICK i \in 1..Len(l) : l[i].id = m
        BY <2>2 DEF Ids, l
      <3>3. /\ Len(l) \in Nat /\ Head(l) = l[1]
            /\ Len(Tail(l)) = Len(l) - 1
            /\ \A j \in 1..Len(Tail(l)) : Tail(l)[j] = l[j + 1]
        BY <3>1, HeadTailProperties, LenProperties
      <3>4. i - 1 \in 1..Len(Tail(l)) /\ Tail(l)[i - 1] = l[i]
        BY <3>1, <3>2, <3>3
      <3> QED
        BY <3>2, <3>4 DEF Ids, l
    <2> QED
      BY <1>w, <2>1, <2>2, LaterStays DEF WalkAt
  <1>5. CASE InboxAbort(k)
    <2>1. inbox'[k].must = {}
      BY <1>5, <1>i, ClosedType DEF InboxAbort
    <2> QED
      BY <2>1 DEF WalkAt
  <1>6. ASSUME NEW n \in Node \ {k}, cmd_inbox(n) \/ InboxAbort(n)
        PROVE  inbox'[k] = inbox[k]
    <2>1. InboxOpen(n) => inbox'[k] = inbox[k]
      BY ZenonT(30), OpenEffect
    <2>2. InboxPrint(n) => inbox'[k] = inbox[k]
      BY <1>i, PrintEffect
    <2>3. InboxMark(n) => inbox'[k] = inbox[k]
      BY <1>i, MarkEffect
    <2>4. InboxAbort(n) => inbox'[k] = inbox[k]
      BY <1>i DEF InboxAbort
    <2> QED
      BY <1>6, <2>1, <2>2, <2>3, <2>4 DEF cmd_inbox
  <1> QED
    BY <1>1, <1>2, <1>3, <1>4, <1>5, <1>6, InboxOwn DEF cmd_inbox

\* A user who reads on as long as cmd_inbox says that there is more sees every
\* message that was stored when the reading began, although get_inbox counts
\* its OFFSET from the front of a table that grows between two pages.
THEOREM WalkingSeesAll == Spec => []WalkSeesAll
  <1>1. ASSUME Walk PROVE WalkSeesAll
    <2> SUFFICES ASSUME NEW n \in Node, inbox[n].list = <<>>, ~inbox[n].full
                 PROVE  inbox[n].must = {}
      BY DEF WalkSeesAll
    <2>1. Ids(inbox[n].list) = {}
      BY DEF Ids
    <2> QED
      BY <1>1, <2>1 DEF Walk, WalkAt
  <1> QED
    BY <1>1, InitWalk, NextWalk, InitUnsent, NextUnsent, InitHead, NextHead,
       TypeCorrect, PTL DEF Spec
============================================================================
