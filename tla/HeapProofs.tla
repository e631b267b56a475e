---------------------------- MODULE HeapProofs ----------------------------
(***************************************************************************)
(* The safety properties of Heap and of the heap with its bytes, for every *)
(* arena, header size and set of request sizes.  HeapInv is inductive; the *)
(* lemmas before it say what each kind of update leaves of the list.       *)
(***************************************************************************)
EXTENDS HeapMemory, TLAPS

(* What TypeOK says of hdr. *)
HeadersOK == DOMAIN hdr \subseteq Nat \ {NULL} /\ hdr \in [DOMAIN hdr -> Header]

List == HeadersOK /\ WellLinked

(* The header right behind a block of n bytes at h. *)
RestOf(h, n) == h + HEADER_SIZE + n

(* The fields of a header of the list, and where its block lies. *)
LEMMA ListFacts ==
  ASSUME List, NEW a \in DOMAIN hdr
  PROVE  /\ a \in Nat /\ a # NULL
         /\ hdr[a] \in Header
         /\ hdr[a].next \in Nat /\ hdr[a].prev \in Nat /\ hdr[a].size \in Nat
         /\ hdr[a].taken \in BOOLEAN
         /\ EndOf(a) \in Nat /\ a < EndOf(a)
         /\ hdr[a].next # NULL => hdr[a].next \in DOMAIN hdr /\ a < hdr[a].next
         /\ hdr[a].prev # NULL => hdr[a].prev \in DOMAIN hdr /\ hdr[a].prev < a
  <1>1. a \in Nat /\ a # NULL /\ hdr[a] \in Header
    BY DEF List, HeadersOK
  <1>2. /\ hdr[a].next \in Nat /\ hdr[a].prev \in Nat /\ hdr[a].size \in Nat
        /\ hdr[a].taken \in BOOLEAN
    BY <1>1 DEF Header
  <1>3. EndOf(a) \in Nat /\ a < EndOf(a)
    BY <1>1, <1>2, HeapAssumption DEF EndOf
  <1>4. hdr[a].next # NULL => hdr[a].next \in DOMAIN hdr /\ a < hdr[a].next
    BY <1>1, <1>2, <1>3 DEF List, WellLinked, LinksAgree, InOrder
  <1>5. ASSUME hdr[a].prev # NULL PROVE hdr[a].prev \in DOMAIN hdr /\ hdr[a].prev < a
    <2>1. a # MEM_ADDR_START
      BY <1>5 DEF List, WellLinked, LinksAgree
    <2>2. hdr[a].prev \in DOMAIN hdr /\ hdr[hdr[a].prev].next = a
      BY <2>1 DEF List, WellLinked, LinksAgree
    <2>3. hdr[a].prev \in Nat /\ hdr[hdr[a].prev].size \in Nat
      BY <2>2 DEF List, HeadersOK, Header
    <2>4. EndOf(hdr[a].prev) <= a
      BY <2>2, <1>1 DEF List, WellLinked, InOrder
    <2> QED
      BY <2>2, <2>3, <2>4, <1>1, HeapAssumption DEF EndOf
  <1> QED
    BY <1>1, <1>2, <1>3, <1>4, <1>5

(* Splitting h puts one new free header into the gap between h and its     *)
(* successor.                                                              *)
LEMMA SplitEffect ==
  ASSUME List, NEW h \in DOMAIN hdr, NEW n \in Nat, CanSplit(h, n)
  PROVE  LET rest == RestOf(h, n)
             nxt  == hdr[h].next
             list == Split(h, n)
         IN  /\ rest \in Nat /\ rest # NULL /\ rest \notin DOMAIN hdr
             /\ DOMAIN list = DOMAIN hdr \cup {rest}
             /\ list[h] = [next |-> rest, prev |-> hdr[h].prev,
                           size |-> n, taken |-> hdr[h].taken]
             /\ list[rest] = [next |-> nxt, prev |-> h,
                              size |-> hdr[h].size - n - HEADER_SIZE, taken |-> FALSE]
             /\ nxt # NULL => list[nxt] = [next |-> hdr[nxt].next, prev |-> rest,
                                            size |-> hdr[nxt].size, taken |-> hdr[nxt].taken]
             /\ \A a \in DOMAIN hdr \ {h, nxt} : list[a] = hdr[a]
  <1> DEFINE rest == RestOf(h, n)
             nxt  == hdr[h].next
             list == Split(h, n)
             fwd  == SplitForward(h, n)
  <1>1. /\ h \in Nat /\ nxt \in Nat /\ hdr[h].size \in Nat /\ hdr[h] \in Header
        /\ nxt # NULL => nxt \in DOMAIN hdr /\ h < nxt
    BY ListFacts
  <1>2. rest \in Nat /\ h < rest /\ rest < EndOf(h)
    BY <1>1, HeapAssumption DEF RestOf, CanSplit, EndOf
  <1>3. rest \notin DOMAIN hdr
    <2> SUFFICES ASSUME rest \in DOMAIN hdr PROVE FALSE
      OBVIOUS
    <2>1. nxt # NULL /\ nxt <= rest
      BY <1>2 DEF List, WellLinked, InOrder
    <2>2. EndOf(h) <= nxt
      BY <2>1 DEF List, WellLinked, InOrder
    <2>3. EndOf(h) \in Nat
      BY ListFacts
    <2> QED
      BY <2>1, <2>2, <2>3, <1>1, <1>2
  <1>4. rest # h /\ rest # nxt /\ (nxt # NULL => nxt # h) /\ rest # NULL
    BY <1>1, <1>2, <1>3 DEF NULL
  <1>5. /\ DOMAIN fwd = DOMAIN hdr \cup {rest}
        /\ fwd[h] = [next |-> rest, prev |-> hdr[h].prev,
                     size |-> n, taken |-> hdr[h].taken]
        /\ fwd[rest] = [next |-> nxt, prev |-> h,
                        size |-> hdr[h].size - n - HEADER_SIZE, taken |-> FALSE]
        /\ \A a \in DOMAIN hdr \ {h} : fwd[a] = hdr[a]
    BY <1>1, <1>3, <1>4 DEF SplitForward, With, RestOf, Header
  <1>6. CASE nxt # NULL
    <2>1. list = [fwd EXCEPT ![nxt].prev = rest]
      BY <1>6 DEF Split, RestOf
    <2>2. hdr[nxt] \in Header
      BY <1>1, <1>6, ListFacts
    <2>3. list[nxt] = [next |-> hdr[nxt].next, prev |-> rest,
                       size |-> hdr[nxt].size, taken |-> hdr[nxt].taken]
      BY <2>1, <2>2, <1>1, <1>4, <1>5, <1>6 DEF Header
    <2>4. DOMAIN list = DOMAIN fwd /\ \A a \in DOMAIN fwd \ {nxt} : list[a] = fwd[a]
      BY <2>1
    <2>5. DOMAIN list = DOMAIN hdr \cup {rest}
      BY <2>4, <1>5
    <2>6. list[h] = fwd[h] /\ list[rest] = fwd[rest]
      BY <2>4, <1>4, <1>5, <1>6
    <2>7. \A a \in DOMAIN hdr \ {h, nxt} : list[a] = hdr[a]
      BY <2>4, <1>5
    <2> QED
      BY <2>3, <2>5, <2>6, <2>7, <1>1, <1>2, <1>3, <1>4, <1>5, <1>6
  <1>7. CASE nxt = NULL
    <2>1. list = fwd
      BY <1>7 DEF Split
    <2> QED
      BY <2>1, <1>2, <1>3, <1>4, <1>5, <1>7
  <1> QED
    BY <1>6, <1>7


(* Giving h to a request, by a split or by setting its size by hand, keeps *)
(* the list and touches no other block.                                    *)
LEMMA TakeKeepsList ==
  ASSUME List, NEW h \in DOMAIN hdr, NEW n \in Nat,
         \/ n <= hdr[h].size
         \/ h = MEM_ADDR_START /\ InitialIsAlone /\ EnoughRoom(n),
         TakeHeader(h, n)
  PROVE  /\ List'
         /\ DOMAIN hdr \subseteq DOMAIN hdr'
         /\ hdr'[h].taken /\ hdr'[h].size = n
         /\ \A a \in DOMAIN hdr \ {h} : /\ hdr'[a].taken = hdr[a].taken
                                        /\ hdr'[a].size = hdr[a].size
                                        /\ hdr'[a].next = hdr[a].next
         /\ \A a \in DOMAIN hdr' \ DOMAIN hdr : ~hdr'[a].taken /\ hdr'[a].next = hdr[h].next
  <1> DEFINE rest == RestOf(h, n)
             nxt  == hdr[h].next
  <1>0. /\ h \in Nat /\ h # NULL /\ nxt \in Nat /\ hdr[h].size \in Nat /\ hdr[h] \in Header
        /\ hdr[h].prev \in Nat /\ hdr[h].taken \in BOOLEAN
        /\ nxt # NULL => nxt \in DOMAIN hdr /\ h < nxt
        /\ EndOf(h) = h + HEADER_SIZE + hdr[h].size
        /\ HEADER_SIZE \in Nat /\ HEADER_SIZE > 0 /\ MEM_ADDR_START \in Nat /\ MEM_SIZE \in Nat
    BY ListFacts, HeapAssumption DEF EndOf
  <1>1. CASE CanSplit(h, n)
    <2> DEFINE list == Split(h, n)
    <2>1. /\ rest \in Nat /\ rest # NULL /\ rest \notin DOMAIN hdr
          /\ DOMAIN list = DOMAIN hdr \cup {rest}
          /\ list[h] = [next |-> rest, prev |-> hdr[h].prev,
                        size |-> n, taken |-> hdr[h].taken]
          /\ list[rest] = [next |-> nxt, prev |-> h,
                           size |-> hdr[h].size - n - HEADER_SIZE, taken |-> FALSE]
          /\ nxt # NULL => list[nxt] = [next |-> hdr[nxt].next, prev |-> rest,
                                         size |-> hdr[nxt].size, taken |-> hdr[nxt].taken]
          /\ \A a \in DOMAIN hdr \ {h, nxt} : list[a] = hdr[a]
      BY <1>1, SplitEffect
    <2>2. hdr' = [list EXCEPT ![h].taken = TRUE]
      BY <1>1 DEF TakeHeader
    <2> HIDE DEF list
    <2>3. rest = h + HEADER_SIZE + n /\ h < rest /\ rest < EndOf(h)
      BY <1>0, <1>1 DEF RestOf, CanSplit
    <2>4. /\ DOMAIN hdr' = DOMAIN hdr \cup {rest}
          /\ hdr'[h] = [next |-> rest, prev |-> hdr[h].prev, size |-> n, taken |-> TRUE]
          /\ hdr'[rest] = [next |-> nxt, prev |-> h,
                           size |-> hdr[h].size - n - HEADER_SIZE, taken |-> FALSE]
          /\ nxt # NULL => hdr'[nxt] = [next |-> hdr[nxt].next, prev |-> rest,
                                         size |-> hdr[nxt].size, taken |-> hdr[nxt].taken]
          /\ \A a \in DOMAIN hdr \ {h, nxt} : hdr'[a] = hdr[a]
      <3>1. /\ DOMAIN hdr' = DOMAIN list
            /\ \A a \in DOMAIN list \ {h} : hdr'[a] = list[a]
        BY <2>2
      <3>2. hdr'[h] = [next |-> rest, prev |-> hdr[h].prev, size |-> n, taken |-> TRUE]
        <4>1. hdr'[h] = [list[h] EXCEPT !.taken = TRUE]
          BY <2>1, <2>2
        <4>2. [list[h] EXCEPT !.taken = TRUE]
                = [[next |-> rest, prev |-> hdr[h].prev,
                    size |-> n, taken |-> hdr[h].taken] EXCEPT !.taken = TRUE]
          BY <2>1
        <4> QED
          BY <4>1, <4>2
      <3> QED
        BY <3>1, <3>2, <2>1, <2>3, <1>0
    <2> HIDE DEF rest
    <2>5. hdr[h].size - n - HEADER_SIZE \in Nat
      BY <1>0, <1>1 DEF CanSplit
    <2>6. HeadersOK'
      <3>1. ASSUME NEW a \in DOMAIN hdr' PROVE hdr'[a] \in Header
        <4>1. CASE a = rest
          <5>1. h \in Nat /\ nxt \in Nat
            BY <1>0
          <5> QED
            BY <4>1, <5>1, <2>4, <2>5 DEF Header
        <4>5. CASE a = h
          BY <4>5, <2>1, <2>4, <1>0 DEF Header
        <4>2. CASE a = nxt /\ nxt # NULL
          <5>1. hdr[nxt].next \in Nat /\ hdr[nxt].size \in Nat /\ hdr[nxt].taken \in BOOLEAN
            BY <4>2, <1>0, ListFacts
          <5> QED
            BY <4>2, <5>1, <2>1, <2>4 DEF Header
        <4>3. CASE a \in DOMAIN hdr \ {h, nxt}
          BY <4>3, <2>4, ListFacts
        <4>4. nxt = NULL => nxt \notin DOMAIN hdr
          BY DEF List, HeadersOK
        <4> QED
          BY <4>1, <4>2, <4>3, <4>4, <4>5, <2>4
      <3>2. DOMAIN hdr' \subseteq Nat \ {NULL}
        BY <2>1, <2>4 DEF List, HeadersOK
      <3>3. hdr' = [a \in DOMAIN hdr' |-> hdr'[a]]
        BY <2>2, <2>4
      <3> QED
        BY <3>1, <3>2, <3>3 DEF HeadersOK
    <2>7. /\ h # rest /\ h # nxt /\ rest # nxt
          /\ hdr'[h].next = rest /\ hdr'[h].prev = hdr[h].prev
          /\ hdr'[h].size = n /\ hdr'[h].taken
          /\ hdr'[rest].next = nxt /\ hdr'[rest].prev = h
          /\ hdr'[rest].size = hdr[h].size - n - HEADER_SIZE /\ ~hdr'[rest].taken
          /\ \A a \in DOMAIN hdr \ {h} : /\ hdr'[a].next = hdr[a].next
                                         /\ hdr'[a].size = hdr[a].size
                                         /\ hdr'[a].taken = hdr[a].taken
          /\ \A a \in DOMAIN hdr \ {h, nxt} : hdr'[a].prev = hdr[a].prev
          /\ nxt # NULL => hdr'[nxt].prev = rest
      <3>1. h # rest /\ h # nxt /\ rest # nxt
        BY <2>1, <2>3, <1>0
      <3>2. /\ hdr'[h].next = rest /\ hdr'[h].prev = hdr[h].prev
            /\ hdr'[h].size = n /\ hdr'[h].taken
        BY <2>4
      <3>3. /\ hdr'[rest].next = nxt /\ hdr'[rest].prev = h
            /\ hdr'[rest].size = hdr[h].size - n - HEADER_SIZE /\ ~hdr'[rest].taken
        BY <2>4
      <3>4. nxt # NULL => /\ hdr'[nxt].next = hdr[nxt].next /\ hdr'[nxt].size = hdr[nxt].size
                          /\ hdr'[nxt].taken = hdr[nxt].taken /\ hdr'[nxt].prev = rest
        BY <2>4
      <3>5. nxt = NULL => nxt \notin DOMAIN hdr
        BY DEF List, HeadersOK
      <3> QED
        BY <3>1, <3>2, <3>3, <3>4, <3>5, <2>4
    <2>8. LinksAgree'
      <3>1. /\ MEM_ADDR_START \in DOMAIN hdr /\ hdr[MEM_ADDR_START].prev = NULL
            /\ nxt # NULL => nxt # MEM_ADDR_START /\ hdr[nxt].prev = h
        BY <1>0 DEF List, WellLinked, LinksAgree
      <3>2. MEM_ADDR_START \in DOMAIN hdr' /\ hdr'[MEM_ADDR_START].prev = NULL
        <4>1. MEM_ADDR_START \in DOMAIN hdr'
          BY <3>1, <2>4
        <4>2. CASE MEM_ADDR_START = h
          BY <4>1, <4>2, <3>1, <2>7
        <4>3. CASE MEM_ADDR_START \in DOMAIN hdr \ {h, nxt}
          BY <4>1, <4>3, <3>1, <2>7
        <4>4. nxt = NULL => nxt \notin DOMAIN hdr
          BY DEF List, HeadersOK
        <4> QED
          BY <4>1, <4>2, <4>3, <4>4, <3>1
      <3>3. ASSUME NEW a \in DOMAIN hdr', hdr'[a].next # NULL
            PROVE  hdr'[a].next \in DOMAIN hdr' /\ hdr'[hdr'[a].next].prev = a
        <4>1. CASE a \in {h, rest}
          BY <4>1, <3>3, <2>1, <2>4, <2>7, <1>0
        <4>2. CASE a \in DOMAIN hdr \ {h}
          <5>1. /\ hdr'[a].next = hdr[a].next
                /\ hdr[a].next \in DOMAIN hdr /\ hdr[hdr[a].next].prev = a
            BY <4>2, <3>3, <2>7 DEF List, WellLinked, LinksAgree
          <5>2. hdr[a].next # nxt
            BY <5>1, <4>2, <3>1, <3>3
          <5> QED
            BY <5>1, <5>2, <2>4, <2>7
        <4> QED
          BY <4>1, <4>2, <2>4
      <3>4. ASSUME NEW a \in DOMAIN hdr', a # MEM_ADDR_START
            PROVE  hdr'[a].prev \in DOMAIN hdr' /\ hdr'[hdr'[a].prev].next = a
        <4>1. CASE a = rest \/ (a = nxt /\ nxt # NULL)
          BY <4>1, <2>1, <2>4, <2>7, <1>0
        <4>2. CASE a \in DOMAIN hdr \ {nxt}
          <5>1. /\ hdr'[a].prev = hdr[a].prev
                /\ hdr[a].prev \in DOMAIN hdr /\ hdr[hdr[a].prev].next = a
            BY <4>2, <3>4, <2>7 DEF List, WellLinked, LinksAgree
          <5>2. hdr[a].prev # h
            BY <5>1, <4>2
          <5> QED
            BY <5>1, <5>2, <2>4, <2>7
        <4>3. nxt = NULL => a # nxt
          BY <2>6 DEF HeadersOK
        <4> QED
          BY <4>1, <4>2, <4>3, <2>4
      <3> QED
        BY <3>2, <3>3, <3>4 DEF LinksAgree
    <2>9. InArena'
      <3>1. ASSUME NEW a \in DOMAIN hdr'
            PROVE  MEM_ADDR_START <= a /\ EndOf(a)' <= MEM_END
        <4>0. MEM_ADDR_START <= h /\ EndOf(h) <= MEM_END /\ MEM_END \in Nat
          BY <1>0 DEF List, WellLinked, InArena, MEM_END
        <4>1. CASE a = h
          <5>1. EndOf(a)' = rest
            BY <4>1, <2>3, <2>7 DEF EndOf
          <5> QED
            BY <5>1, <4>0, <4>1, <2>1, <2>3, <1>0
        <4>2. CASE a = rest
          <5>1. EndOf(a)' = EndOf(h)
            BY <4>2, <2>1, <2>3, <2>7, <1>0 DEF EndOf
          <5> QED
            BY <5>1, <4>0, <4>2, <2>1, <2>3, <1>0
        <4>3. CASE a \in DOMAIN hdr \ {h}
          <5>1. EndOf(a)' = EndOf(a)
            BY <4>3, <2>7 DEF EndOf
          <5> QED
            BY <5>1, <4>3 DEF List, WellLinked, InArena
        <4> QED
          BY <4>1, <4>2, <4>3, <2>4
      <3>2. MEM_END' = MEM_END
        BY DEF MEM_END
      <3> QED
        BY <3>1, <3>2 DEF InArena
    <2>10. InOrder'
      <3>0. /\ \A a \in DOMAIN hdr : a \in Nat
            /\ \A a, b \in DOMAIN hdr : a < b => hdr[a].next # NULL /\ hdr[a].next <= b
            /\ nxt # NULL => EndOf(h) <= nxt
        BY DEF List, HeadersOK, WellLinked, InOrder
      <3>1. ASSUME NEW a \in DOMAIN hdr', hdr'[a].next # NULL
            PROVE  EndOf(a)' <= hdr'[a].next
        <4>1. CASE a = h
          BY <4>1, <2>1, <2>3, <2>7, <1>0 DEF EndOf
        <4>2. CASE a = rest
          <5>1. EndOf(a)' = EndOf(h)
            BY <4>2, <2>1, <2>3, <2>7, <1>0 DEF EndOf
          <5> QED
            BY <5>1, <4>2, <3>0, <3>1, <2>7
        <4>3. CASE a \in DOMAIN hdr \ {h}
          <5>1. EndOf(a)' = EndOf(a) /\ hdr'[a].next = hdr[a].next
            BY <4>3, <2>7 DEF EndOf
          <5> QED
            BY <5>1, <4>3, <3>1 DEF List, WellLinked, InOrder
        <4> QED
          BY <4>1, <4>2, <4>3, <2>4
      <3>2. ASSUME NEW a \in DOMAIN hdr', NEW b \in DOMAIN hdr', a < b
            PROVE  hdr'[a].next # NULL /\ hdr'[a].next <= b
        <4>1. CASE a = h /\ b = rest
          BY <4>1, <2>1, <2>7
        <4>2. CASE a = h /\ b \in DOMAIN hdr
          BY <4>2, <3>0, <3>2, <2>1, <2>3, <2>7, <1>0
        <4>3. CASE a = rest /\ b \in DOMAIN hdr
          BY <4>3, <3>0, <3>2, <2>1, <2>3, <2>7, <1>0
        <4>4. CASE a \in DOMAIN hdr \ {h} /\ b \in DOMAIN hdr
          BY <4>4, <3>0, <3>2, <2>7
        <4>5. CASE a \in DOMAIN hdr \ {h} /\ b = rest
          <5>1. a < h
            <6> SUFFICES ASSUME h < a PROVE FALSE
              BY <4>5, <3>0, <1>0
            <6>1. nxt # NULL /\ nxt <= a /\ EndOf(h) <= nxt
              BY <3>0, <4>5
            <6> QED
              BY <6>1, <4>5, <3>0, <3>2, <2>1, <2>3, <1>0
          <5>2. hdr[a].next # NULL /\ hdr[a].next <= h /\ hdr[a].next \in Nat
            BY <5>1, <4>5, <3>0, ListFacts
          <5> QED
            BY <5>2, <4>5, <2>1, <2>3, <2>7, <1>0
        <4>6. CASE a = rest /\ b = rest
          BY <4>6, <3>2, <2>1
        <4> QED
          BY <4>1, <4>2, <4>3, <4>4, <4>5, <4>6, <2>4
      <3> QED
        BY <3>1, <3>2 DEF InOrder
    <2> QED
      BY <2>1, <2>3, <2>4, <2>6, <2>7, <2>8, <2>9, <2>10, <1>0 DEF List, WellLinked
  <1>2. CASE ~CanSplit(h, n)
    <2>1. hdr' = [[hdr EXCEPT ![h].size = n] EXCEPT ![h].taken = TRUE]
      BY <1>2 DEF TakeHeader
    <2>2. /\ DOMAIN hdr' = DOMAIN hdr
          /\ hdr'[h] = [next |-> nxt, prev |-> hdr[h].prev, size |-> n, taken |-> TRUE]
          /\ \A a \in DOMAIN hdr \ {h} : hdr'[a] = hdr[a]
      BY <2>1, <1>0 DEF Header
    <2>3. /\ hdr'[h].next = nxt /\ hdr'[h].prev = hdr[h].prev
          /\ hdr'[h].size = n /\ hdr'[h].taken
          /\ \A a \in DOMAIN hdr : hdr'[a].next = hdr[a].next /\ hdr'[a].prev = hdr[a].prev
      BY <2>2
    <2>4. HeadersOK'
      <3>1. ASSUME NEW a \in DOMAIN hdr' PROVE hdr'[a] \in Header
        <4>1. CASE a = h
          BY <4>1, <2>2, <1>0 DEF Header
        <4>2. CASE a # h
          BY <4>2, <2>2, ListFacts
        <4> QED
          BY <4>1, <4>2
      <3>2. hdr' = [a \in DOMAIN hdr' |-> hdr'[a]]
        BY <2>1
      <3> QED
        BY <3>1, <3>2, <2>2 DEF List, HeadersOK
    <2>5. LinksAgree'
      BY <2>2, <2>3 DEF List, WellLinked, LinksAgree
    <2>6. EndOf(h)' = h + HEADER_SIZE + n /\ \A a \in DOMAIN hdr \ {h} : EndOf(a)' = EndOf(a)
      BY <2>2, <2>3 DEF EndOf
    <2>7. EndOf(h)' <= MEM_END /\ (nxt # NULL => EndOf(h)' <= nxt)
      <3>1. CASE n <= hdr[h].size
        <4>1. EndOf(h)' <= EndOf(h)
          BY <3>1, <2>6, <1>0
        <4>2. EndOf(h) <= MEM_END /\ (nxt # NULL => EndOf(h) <= nxt)
          BY DEF List, WellLinked, InArena, InOrder
        <4>3. MEM_END \in Nat /\ EndOf(h) \in Nat /\ EndOf(h)' \in Nat
          BY <2>6, <1>0 DEF MEM_END
        <4> QED
          BY <4>1, <4>2, <4>3, <1>0
      <3>2. CASE h = MEM_ADDR_START /\ InitialIsAlone /\ EnoughRoom(n)
        BY <3>2, <2>6, <1>0 DEF InitialIsAlone, EnoughRoom, MEM_END
      <3> QED
        BY <3>1, <3>2
    <2>8. InArena'
      <3>1. ASSUME NEW a \in DOMAIN hdr'
            PROVE  MEM_ADDR_START <= a /\ EndOf(a)' <= MEM_END
        BY <2>2, <2>6, <2>7 DEF List, WellLinked, InArena
      <3> QED
        BY <3>1 DEF InArena, MEM_END
    <2>9. InOrder'
      <3>1. ASSUME NEW a \in DOMAIN hdr', hdr'[a].next # NULL
            PROVE  EndOf(a)' <= hdr'[a].next
        BY <3>1, <2>2, <2>3, <2>6, <2>7 DEF List, WellLinked, InOrder
      <3>2. \A a, b \in DOMAIN hdr' : a < b => hdr'[a].next # NULL /\ hdr'[a].next <= b
        BY <2>2, <2>3 DEF List, WellLinked, InOrder
      <3> QED
        BY <3>1, <3>2 DEF InOrder
    <2> QED
      BY <2>2, <2>3, <2>4, <2>5, <2>8, <2>9 DEF List, WellLinked
  <1> QED
    BY <1>1, <1>2


(* A header appended behind the tail becomes the tail.                     *)
LEMMA AppendKeepsList ==
  ASSUME List, NEW tail \in DOMAIN hdr, hdr[tail].next = NULL,
         NEW n \in Nat, RoomBehind(tail, n), AppendHeader(tail, n)
  PROVE  /\ List'
         /\ EndOf(tail) \in Nat /\ EndOf(tail) \notin DOMAIN hdr
         /\ DOMAIN hdr' = DOMAIN hdr \cup {EndOf(tail)}
         /\ hdr'[EndOf(tail)].taken /\ hdr'[EndOf(tail)].size = n
         /\ hdr'[EndOf(tail)].next = NULL
         /\ \A a \in DOMAIN hdr : hdr'[a].taken = hdr[a].taken /\ hdr'[a].size = hdr[a].size
         /\ \A a \in DOMAIN hdr \ {tail} : hdr'[a].next = hdr[a].next
         /\ hdr'[tail].next = EndOf(tail)
  <1> DEFINE new  == EndOf(tail)
             list == With(hdr, new, [next |-> NULL, prev |-> tail, size |-> n, taken |-> TRUE])
  <1>1. /\ tail \in Nat /\ tail # NULL /\ new \in Nat /\ tail < new /\ new # NULL
        /\ hdr[tail].prev \in Nat /\ hdr[tail].size \in Nat /\ hdr[tail].taken \in BOOLEAN
        /\ hdr[tail] \in Header /\ new = tail + HEADER_SIZE + hdr[tail].size
    BY ListFacts DEF NULL, EndOf
  <1>2. /\ \A a \in DOMAIN hdr : a \in Nat /\ MEM_ADDR_START <= a /\ a <= tail
        /\ MEM_ADDR_START \in DOMAIN hdr /\ MEM_ADDR_START \in Nat
        /\ HEADER_SIZE \in Nat /\ MEM_SIZE \in Nat
    BY HeapAssumption DEF List, HeadersOK, WellLinked, LinksAgree, InOrder, InArena
  <1>3. new \notin DOMAIN hdr
    BY <1>1, <1>2
  <1>4. /\ DOMAIN list = DOMAIN hdr \cup {new}
        /\ list[new] = [next |-> NULL, prev |-> tail, size |-> n, taken |-> TRUE]
        /\ \A a \in DOMAIN hdr : list[a] = hdr[a]
    BY <1>3 DEF With
  <1>5. hdr' = [list EXCEPT ![tail].next = new]
    BY DEF AppendHeader
  <1> HIDE DEF list
  <1>6. /\ DOMAIN hdr' = DOMAIN hdr \cup {new}
        /\ hdr'[new] = [next |-> NULL, prev |-> tail, size |-> n, taken |-> TRUE]
        /\ hdr'[tail] = [next |-> new, prev |-> hdr[tail].prev,
                         size |-> hdr[tail].size, taken |-> hdr[tail].taken]
        /\ \A a \in DOMAIN hdr \ {tail} : hdr'[a] = hdr[a]
    <2>1. /\ DOMAIN hdr' = DOMAIN list
          /\ \A a \in DOMAIN list \ {tail} : hdr'[a] = list[a]
      BY <1>5
    <2>2. hdr'[tail] = [hdr[tail] EXCEPT !.next = new]
      BY <1>4, <1>5
    <2>3. hdr'[tail] = [next |-> new, prev |-> hdr[tail].prev,
                        size |-> hdr[tail].size, taken |-> hdr[tail].taken]
      BY <2>2, <1>1 DEF Header
    <2> QED
      BY <2>1, <2>3, <1>1, <1>3, <1>4
  <1> HIDE DEF new
  <1>7. /\ hdr'[new].next = NULL /\ hdr'[new].prev = tail
        /\ hdr'[new].size = n /\ hdr'[new].taken
        /\ hdr'[tail].next = new /\ hdr'[tail].prev = hdr[tail].prev
        /\ hdr'[tail].size = hdr[tail].size /\ hdr'[tail].taken = hdr[tail].taken
        /\ \A a \in DOMAIN hdr : /\ hdr'[a].size = hdr[a].size
                                 /\ hdr'[a].taken = hdr[a].taken
                                 /\ hdr'[a].prev = hdr[a].prev
        /\ \A a \in DOMAIN hdr \ {tail} : hdr'[a].next = hdr[a].next
    BY <1>6
  <1>8. HeadersOK'
    <2>1. ASSUME NEW a \in DOMAIN hdr' PROVE hdr'[a] \in Header
      <3>1. CASE a = new
        BY <3>1, <1>1, <1>6 DEF Header, NULL
      <3>2. CASE a = tail
        BY <3>2, <1>1, <1>6 DEF Header
      <3>3. CASE a \in DOMAIN hdr \ {tail}
        BY <3>3, <1>6, ListFacts
      <3> QED
        BY <3>1, <3>2, <3>3, <1>6
    <2>2. hdr' = [a \in DOMAIN hdr' |-> hdr'[a]]
      BY <1>5
    <2> QED
      BY <2>1, <2>2, <1>1, <1>2, <1>6 DEF List, HeadersOK
  <1>9. LinksAgree'
    <2>1. MEM_ADDR_START \in DOMAIN hdr' /\ hdr'[MEM_ADDR_START].prev = NULL
      BY <1>2, <1>6, <1>7 DEF List, WellLinked, LinksAgree
    <2>2. ASSUME NEW a \in DOMAIN hdr', hdr'[a].next # NULL
          PROVE  hdr'[a].next \in DOMAIN hdr' /\ hdr'[hdr'[a].next].prev = a
      <3>1. CASE a \in {new, tail}
        BY <3>1, <2>2, <1>6, <1>7
      <3>2. CASE a \in DOMAIN hdr \ {tail}
        BY <3>2, <2>2, <1>6, <1>7 DEF List, WellLinked, LinksAgree
      <3> QED
        BY <3>1, <3>2, <1>6
    <2>3. ASSUME NEW a \in DOMAIN hdr', a # MEM_ADDR_START
          PROVE  hdr'[a].prev \in DOMAIN hdr' /\ hdr'[hdr'[a].prev].next = a
      <3>1. CASE a = new
        BY <3>1, <1>6, <1>7
      <3>2. CASE a \in DOMAIN hdr
        <4>1. /\ hdr'[a].prev = hdr[a].prev
              /\ hdr[a].prev \in DOMAIN hdr /\ hdr[hdr[a].prev].next = a
          BY <3>2, <2>3, <1>7 DEF List, WellLinked, LinksAgree
        <4>2. hdr[a].prev # tail
          BY <4>1, <3>2 DEF List, HeadersOK
        <4> QED
          BY <4>1, <4>2, <1>6, <1>7
      <3> QED
        BY <3>1, <3>2, <1>6
    <2> QED
      BY <2>1, <2>2, <2>3 DEF LinksAgree
  <1>10. \A a \in DOMAIN hdr : EndOf(a)' = EndOf(a)
    BY <1>7 DEF EndOf
  <1>11. \A a : a = new => EndOf(a)' = new + HEADER_SIZE + n
    BY <1>7 DEF EndOf
  <1>12. InArena'
    <2>1. \A a : a = new => MEM_ADDR_START <= a /\ EndOf(a)' <= MEM_END
      BY <1>1, <1>2, <1>11 DEF RoomBehind, MEM_END, new
    <2>2. \A a \in DOMAIN hdr : MEM_ADDR_START <= a /\ EndOf(a)' <= MEM_END
      BY <1>10 DEF List, WellLinked, InArena
    <2> QED
      BY <2>1, <2>2, <1>6 DEF InArena, MEM_END
  <1>13. InOrder'
    <2>1. ASSUME NEW a \in DOMAIN hdr', hdr'[a].next # NULL
          PROVE  EndOf(a)' <= hdr'[a].next
      <3>1. CASE a = tail
        BY <3>1, <1>1, <1>7, <1>10 DEF new
      <3>2. CASE a \in DOMAIN hdr \ {tail}
        BY <3>2, <2>1, <1>7, <1>10 DEF List, WellLinked, InOrder
      <3> QED
        BY <3>1, <3>2, <2>1, <1>6, <1>7
    <2>2. ASSUME NEW a \in DOMAIN hdr', NEW b \in DOMAIN hdr', a < b
          PROVE  hdr'[a].next # NULL /\ hdr'[a].next <= b
      <3>1. CASE b = new /\ a = tail
        BY <3>1, <1>1, <1>7
      <3>2. CASE b = new /\ a \in DOMAIN hdr \ {tail}
        <4>1. hdr[a].next # NULL /\ hdr[a].next <= tail
          BY <3>2, <1>1, <1>2 DEF List, WellLinked, InOrder
        <4>2. hdr[a].next \in Nat
          BY <3>2, ListFacts
        <4> QED
          BY <4>1, <4>2, <3>2, <1>1, <1>7
      <3>3. CASE b \in DOMAIN hdr /\ a \in DOMAIN hdr
        <4>1. a # tail
          BY <3>3, <2>2, <1>1, <1>2
        <4> QED
          BY <4>1, <3>3, <2>2, <1>7 DEF List, WellLinked, InOrder
      <3>4. CASE a = new
        BY <3>4, <2>2, <1>1, <1>2, <1>6
      <3> QED
        BY <3>1, <3>2, <3>3, <3>4, <1>6
    <2> QED
      BY <2>1, <2>2 DEF InOrder
  <1> QED
    BY <1>1, <1>3, <1>6, <1>7, <1>8, <1>9, <1>12, <1>13 DEF List, WellLinked, new


(* A block that absorbs its free successor keeps the list.                 *)
LEMMA AbsorbKeepsList ==
  ASSUME List, NEW h \in DOMAIN hdr, NEW gone \in DOMAIN hdr,
         hdr[h].next = gone, hdr' = Absorb(h, gone)
  PROVE  /\ List'
         /\ h # gone /\ hdr[gone].prev = h
         /\ DOMAIN hdr' = DOMAIN hdr \ {gone}
         /\ hdr'[h].next = hdr[gone].next
         /\ \A a \in DOMAIN hdr' : hdr'[a].taken = hdr[a].taken
         /\ \A a \in DOMAIN hdr' \ {h} : hdr'[a].size = hdr[a].size
         /\ \A a \in DOMAIN hdr' \ {h} : hdr'[a].next = hdr[a].next
  <1> DEFINE nxt  == hdr[gone].next
             size == hdr[h].size + HEADER_SIZE + hdr[gone].size
             fwd  == AbsorbForward(h, gone)
  <1>1. /\ h \in Nat /\ hdr[h].prev \in Nat /\ hdr[h].size \in Nat /\ hdr[h].taken \in BOOLEAN
        /\ gone \in Nat /\ gone # NULL /\ hdr[gone].size \in Nat /\ nxt \in Nat
        /\ hdr[h] \in Header /\ hdr[gone] \in Header
        /\ h < gone /\ HEADER_SIZE \in Nat
        /\ nxt # NULL => nxt \in DOMAIN hdr /\ gone < nxt
    BY ListFacts, HeapAssumption
  <1>2. /\ h # gone /\ nxt # h /\ nxt # gone
        /\ hdr[gone].prev = h /\ (nxt # NULL => hdr[nxt].prev = gone)
        /\ NULL \notin DOMAIN hdr
    BY <1>1 DEF List, HeadersOK, WellLinked, LinksAgree, NULL
  <1>3. /\ DOMAIN fwd = DOMAIN hdr \ {gone}
        /\ fwd[h] = [next |-> nxt, prev |-> hdr[h].prev,
                     size |-> size, taken |-> hdr[h].taken]
        /\ \A a \in DOMAIN hdr \ {h, gone} : fwd[a] = hdr[a]
    BY <1>1, <1>2 DEF AbsorbForward, Without, Header
  <1>4. /\ DOMAIN hdr' = DOMAIN hdr \ {gone}
        /\ hdr' = [a \in DOMAIN hdr' |-> hdr'[a]]
        /\ hdr'[h] = [next |-> nxt, prev |-> hdr[h].prev,
                      size |-> size, taken |-> hdr[h].taken]
        /\ nxt # NULL => hdr'[nxt] = [next |-> hdr[nxt].next, prev |-> h,
                                      size |-> hdr[nxt].size, taken |-> hdr[nxt].taken]
        /\ \A a \in DOMAIN hdr \ {h, gone, nxt} : hdr'[a] = hdr[a]
    <2>1. CASE nxt # NULL
      <3>1. hdr' = [fwd EXCEPT ![nxt].prev = h]
        BY <2>1 DEF Absorb
      <3>2. hdr[nxt] \in Header
        BY <1>1, <2>1, ListFacts
      <3>3. hdr'[nxt] = [hdr[nxt] EXCEPT !.prev = h]
        BY <3>1, <1>1, <1>2, <1>3, <2>1
      <3>4. hdr'[nxt] = [next |-> hdr[nxt].next, prev |-> h,
                         size |-> hdr[nxt].size, taken |-> hdr[nxt].taken]
        BY <3>2, <3>3 DEF Header
      <3>5. DOMAIN hdr' = DOMAIN fwd /\ \A a \in DOMAIN fwd \ {nxt} : hdr'[a] = fwd[a]
        BY <3>1
      <3>6. hdr' = [a \in DOMAIN hdr' |-> hdr'[a]]
        BY <3>1
      <3>7. hdr'[h] = fwd[h]
        BY <3>5, <1>2, <1>3
      <3> HIDE DEF fwd
      <3> QED
        BY <3>4, <3>5, <3>6, <3>7, <1>3
    <2>2. CASE nxt = NULL
      <3>1. hdr' = fwd
        BY <2>2 DEF Absorb
      <3>2. fwd = [a \in DOMAIN fwd |-> fwd[a]]
        BY DEF AbsorbForward
      <3> HIDE DEF fwd
      <3> QED
        BY <3>1, <3>2, <2>2, <1>3
    <2> QED
      BY <2>1, <2>2
  <1> HIDE DEF fwd, size
  <1>5. /\ size \in Nat /\ size = hdr[h].size + HEADER_SIZE + hdr[gone].size
        /\ hdr'[h].next = nxt /\ hdr'[h].prev = hdr[h].prev
        /\ hdr'[h].size = size /\ hdr'[h].taken = hdr[h].taken
        /\ nxt # NULL => hdr'[nxt].prev = h
        /\ \A a \in DOMAIN hdr \ {h, gone} : /\ hdr'[a].next = hdr[a].next
                                             /\ hdr'[a].size = hdr[a].size
                                             /\ hdr'[a].taken = hdr[a].taken
        /\ \A a \in DOMAIN hdr \ {gone, nxt} : hdr'[a].prev = hdr[a].prev
    <2>1. size \in Nat /\ size = hdr[h].size + HEADER_SIZE + hdr[gone].size
      BY <1>1 DEF size
    <2>2. /\ hdr'[h].next = nxt /\ hdr'[h].prev = hdr[h].prev
          /\ hdr'[h].size = size /\ hdr'[h].taken = hdr[h].taken
      BY <1>4
    <2>3. nxt # NULL => /\ hdr'[nxt].next = hdr[nxt].next /\ hdr'[nxt].size = hdr[nxt].size
                        /\ hdr'[nxt].taken = hdr[nxt].taken /\ hdr'[nxt].prev = h
      BY <1>4
    <2> QED
      BY <2>1, <2>2, <2>3, <1>2, <1>4
  <1>6. HeadersOK'
    <2>1. ASSUME NEW a \in DOMAIN hdr' PROVE hdr'[a] \in Header
      <3>1. CASE a = h
        <4>1. nxt \in Nat /\ hdr[h].prev \in Nat /\ size \in Nat /\ hdr[h].taken \in BOOLEAN
          BY <1>1, <1>5
        <4> QED
          BY <3>1, <4>1, <1>4 DEF Header
      <3>2. CASE a = nxt /\ nxt # NULL
        <4>1. /\ hdr[nxt].next \in Nat /\ h \in Nat
              /\ hdr[nxt].size \in Nat /\ hdr[nxt].taken \in BOOLEAN
          BY <3>2, <1>1, ListFacts
        <4> QED
          BY <3>2, <4>1, <1>4 DEF Header
      <3>3. CASE a \in DOMAIN hdr \ {h, gone, nxt}
        BY <3>3, <1>4, ListFacts
      <3> QED
        BY <3>1, <3>2, <3>3, <1>2, <1>4
    <2> QED
      BY <2>1, <1>4 DEF List, HeadersOK
  <1>7. LinksAgree'
    <2>1. MEM_ADDR_START \in DOMAIN hdr' /\ hdr'[MEM_ADDR_START].prev = NULL
      <3>1. MEM_ADDR_START \in DOMAIN hdr /\ hdr[MEM_ADDR_START].prev = NULL
        BY DEF List, WellLinked, LinksAgree
      <3>2. MEM_ADDR_START # gone /\ MEM_ADDR_START # nxt
        BY <3>1, <1>1, <1>2
      <3> QED
        BY <3>1, <3>2, <1>4, <1>5
    <2>2. ASSUME NEW a \in DOMAIN hdr', hdr'[a].next # NULL
          PROVE  hdr'[a].next \in DOMAIN hdr' /\ hdr'[hdr'[a].next].prev = a
      <3>1. CASE a = h
        BY <3>1, <2>2, <1>1, <1>2, <1>4, <1>5
      <3>2. CASE a \in DOMAIN hdr \ {h, gone}
        <4>1. /\ hdr'[a].next = hdr[a].next
              /\ hdr[a].next \in DOMAIN hdr /\ hdr[hdr[a].next].prev = a
          BY <3>2, <2>2, <1>5 DEF List, WellLinked, LinksAgree
        <4>2. hdr[a].next # gone /\ hdr[a].next # nxt
          BY <4>1, <3>2, <1>2, <2>2
        <4> QED
          BY <4>1, <4>2, <1>4, <1>5
      <3> QED
        BY <3>1, <3>2, <1>4
    <2>3. ASSUME NEW a \in DOMAIN hdr', a # MEM_ADDR_START
          PROVE  hdr'[a].prev \in DOMAIN hdr' /\ hdr'[hdr'[a].prev].next = a
      <3>1. CASE a = nxt
        BY <3>1, <1>1, <1>2, <1>4, <1>5
      <3>2. CASE a \in DOMAIN hdr \ {gone, nxt}
        <4>1. /\ hdr'[a].prev = hdr[a].prev
              /\ hdr[a].prev \in DOMAIN hdr /\ hdr[hdr[a].prev].next = a
          BY <3>2, <2>3, <1>5 DEF List, WellLinked, LinksAgree
        <4>2. hdr[a].prev # gone
          BY <4>1, <3>2
        <4>3. hdr[a].prev # h
          BY <4>1, <3>2
        <4> QED
          BY <4>1, <4>2, <4>3, <1>4, <1>5
      <3> QED
        BY <3>1, <3>2, <1>4
    <2> QED
      BY <2>1, <2>2, <2>3 DEF LinksAgree
  <1>8. \A a \in DOMAIN hdr \ {h, gone} : EndOf(a)' = EndOf(a)
    BY <1>5 DEF EndOf
  <1>9. \A a : a = h => EndOf(a)' <= EndOf(gone)
    <2>1. EndOf(h) <= gone
      BY <1>1 DEF List, WellLinked, InOrder
    <2> QED
      BY <2>1, <1>1, <1>5 DEF EndOf
  <1>10. EndOf(gone) \in Nat /\ MEM_END \in Nat /\ \A a : a = h => EndOf(a)' \in Nat
    BY <1>1, <1>5, HeapAssumption DEF EndOf, MEM_END
  <1>11. InArena'
    <2>1. \A a \in DOMAIN hdr : MEM_ADDR_START <= a /\ EndOf(a) <= MEM_END
      BY DEF List, WellLinked, InArena
    <2>2. ASSUME NEW a \in DOMAIN hdr' PROVE MEM_ADDR_START <= a /\ EndOf(a)' <= MEM_END
      <3>1. CASE a = h
        BY <3>1, <2>1, <1>9, <1>10
      <3>2. CASE a # h
        BY <3>2, <2>1, <1>4, <1>8
      <3> QED
        BY <3>1, <3>2
    <2> QED
      BY <2>2 DEF InArena, MEM_END
  <1>12. InOrder'
    <2>1. /\ \A a \in DOMAIN hdr : hdr[a].next # NULL => EndOf(a) <= hdr[a].next
          /\ \A a, b \in DOMAIN hdr : a < b => hdr[a].next # NULL /\ hdr[a].next <= b
          /\ \A a \in DOMAIN hdr : a \in Nat
      BY DEF List, HeadersOK, WellLinked, InOrder
    <2>2. ASSUME NEW a \in DOMAIN hdr', hdr'[a].next # NULL
          PROVE  EndOf(a)' <= hdr'[a].next
      <3>1. CASE a = h
        <4>1. EndOf(gone) <= nxt
          BY <3>1, <2>1, <2>2, <1>5
        <4> QED
          BY <3>1, <4>1, <1>1, <1>5, <1>9, <1>10
      <3>2. CASE a # h
        BY <3>2, <2>1, <2>2, <1>4, <1>5, <1>8
      <3> QED
        BY <3>1, <3>2
    <2>3. ASSUME NEW a \in DOMAIN hdr', NEW b \in DOMAIN hdr', a < b
          PROVE  hdr'[a].next # NULL /\ hdr'[a].next <= b
      <3>1. CASE a = h
        <4>1. gone <= b /\ b # gone
          BY <3>1, <2>1, <2>3, <1>4
        <4>2. nxt # NULL /\ nxt <= b
          BY <4>1, <2>1, <1>4
        <4> QED
          BY <3>1, <4>2, <1>5
      <3>2. CASE a # h
        BY <3>2, <2>1, <2>3, <1>4, <1>5
      <3> QED
        BY <3>1, <3>2
    <2> QED
      BY <2>2, <2>3 DEF InOrder
  <1>13. /\ \A a \in DOMAIN hdr' : hdr'[a].taken = hdr[a].taken
         /\ \A a \in DOMAIN hdr' \ {h} : hdr'[a].size = hdr[a].size
         /\ \A a \in DOMAIN hdr' \ {h} : hdr'[a].next = hdr[a].next
    BY <1>4, <1>5
  <1> QED
    BY <1>2, <1>4, <1>5, <1>6, <1>7, <1>11, <1>12, <1>13 DEF List, WellLinked


(***************************************************************************)
(* The inductive invariant                                                 *)
(***************************************************************************)
(* What the call in progress may rely on between two of its steps: which   *)
(* header its locals name, and what the scan has already ruled out.        *)
CallState ==
  /\ pc \in {"idle", "mergeNext", "mergePrev"} => ptr = NULL
  /\ pc # "malloced" => res = NULL
  /\ pc = "scan" => /\ cur \in DOMAIN hdr
                    /\ \A h \in DOMAIN hdr : h < cur => ~Fits(h, req)
  /\ pc \in {"malloc", "scan", "malloced"} /\ ptr # NULL => ptr \in DOMAIN owned
  /\ pc = "malloced" /\ res # NULL => /\ HeaderOf(res) \in DOMAIN hdr
                                      /\ hdr[HeaderOf(res)].taken
                                      /\ req <= hdr[HeaderOf(res)].size
                                      /\ res \notin DOMAIN owned
  /\ pc = "free" => /\ HeaderOf(ptr) \in DOMAIN hdr
                    /\ hdr[HeaderOf(ptr)].taken
                    /\ ptr \notin DOMAIN owned
  /\ pc \in {"mergeNext", "mergePrev"} => cur \in DOMAIN hdr /\ ~hdr[cur].taken
  /\ pc = "mergePrev" => ~IsFree(hdr[cur].next)

HeapInv ==
  /\ TypeOK
  /\ WellLinked
  /\ OwnedBacked
  /\ Accounted
  /\ Coalesced
  /\ RefusedOnlyWhenFull
  /\ CallState

LEMMA InvList == ASSUME HeapInv PROVE List
  BY DEF HeapInv, TypeOK, List, HeadersOK

(* A pointer and its header, both ways. *)
LEMMA Pointers ==
  ASSUME NEW x \in Nat
  PROVE  /\ PtrOf(x) \in Nat /\ PtrOf(x) # NULL /\ HeaderOf(PtrOf(x)) = x
         /\ HeaderOf(x) \in Nat => PtrOf(HeaderOf(x)) = x
  BY HeapAssumption DEF PtrOf, HeaderOf, NULL

LEMMA InvInit == Init => HeapInv
  <1> SUFFICES ASSUME Init PROVE HeapInv
    OBVIOUS
  <1>1. /\ DOMAIN hdr = {MEM_ADDR_START}
        /\ hdr[MEM_ADDR_START] = [next |-> NULL, prev |-> NULL, size |-> 0, taken |-> FALSE]
        /\ hdr = [a \in {MEM_ADDR_START} |-> hdr[a]]
        /\ DOMAIN owned = {}
        /\ owned = [p \in {} |-> 0]
    BY DEF Init
  <1>2. TypeOK
    BY <1>1, HeapAssumption DEF Init, TypeOK, Header, NULL
  <1>3. EndOf(MEM_ADDR_START) = MEM_ADDR_START + HEADER_SIZE
    BY <1>1, HeapAssumption DEF EndOf
  <1>4. WellLinked
    BY <1>1, <1>3, HeapAssumption DEF WellLinked, LinksAgree, InArena, InOrder, MEM_END, NULL
  <1>5. OwnedBacked /\ Accounted /\ Coalesced
    BY <1>1 DEF OwnedBacked, Accounted, Coalesced, IsFree
  <1>6. RefusedOnlyWhenFull /\ CallState
    BY DEF Init, RefusedOnlyWhenFull, CallState
  <1> QED
    BY <1>2, <1>4, <1>5, <1>6 DEF HeapInv

(* A step of malloc that takes a free block of the list.                   *)
LEMMA TakeStep ==
  ASSUME HeapInv, pc \in {"malloc", "scan"},
         NEW h \in DOMAIN hdr, ~hdr[h].taken,
         \/ req <= hdr[h].size
         \/ h = MEM_ADDR_START /\ InitialIsAlone /\ EnoughRoom(req),
         TakeHeader(h, req),
         pc' = "malloced", res' = PtrOf(h), cur' \in Nat,
         req' = req, ptr' = ptr, owned' = owned
  PROVE  HeapInv'
  <1>1. List /\ req \in Nat
    BY InvList DEF HeapInv, TypeOK
  <1>2. /\ List'
        /\ DOMAIN hdr \subseteq DOMAIN hdr'
        /\ hdr'[h].taken /\ hdr'[h].size = req
        /\ \A a \in DOMAIN hdr \ {h} : /\ hdr'[a].taken = hdr[a].taken
                                       /\ hdr'[a].size = hdr[a].size
                                       /\ hdr'[a].next = hdr[a].next
        /\ \A a \in DOMAIN hdr' \ DOMAIN hdr : ~hdr'[a].taken /\ hdr'[a].next = hdr[h].next
    BY <1>1, TakeKeepsList
  <1>3. /\ h \in Nat /\ PtrOf(h) \in Nat /\ PtrOf(h) # NULL /\ HeaderOf(PtrOf(h)) = h
    BY <1>1, ListFacts, Pointers
  <1>4. TypeOK' /\ WellLinked'
    BY <1>2, <1>3 DEF HeapInv, TypeOK, List, HeadersOK
  <1>5. \A p \in DOMAIN owned : HeaderOf(p) \in DOMAIN hdr \ {h}
    BY DEF HeapInv, OwnedBacked
  <1>6. OwnedBacked'
    BY <1>2, <1>5 DEF HeapInv, OwnedBacked, HeaderOf
  <1>7. Accounted'
    BY <1>2, <1>3 DEF HeapInv, Accounted, PtrOf
  <1>8. Coalesced'
    <2>1. \A a \in DOMAIN hdr : ~(~hdr[a].taken /\ IsFree(hdr[a].next))
      BY DEF HeapInv, Coalesced
    <2>2. ASSUME NEW a \in DOMAIN hdr', ~hdr'[a].taken, hdr'[a].next # NULL, ~hdr'[hdr'[a].next].taken
          PROVE  FALSE
      <3>1. hdr'[a].next \in DOMAIN hdr' /\ hdr'[a].next # h
        BY <1>2, <2>2 DEF List, WellLinked, LinksAgree
      <3>2. CASE a \in DOMAIN hdr \ {h}
        <4>1. hdr[a].next \in DOMAIN hdr
          BY <3>2, <2>2, <1>1, <1>2, ListFacts
        <4> QED
          BY <4>1, <3>1, <3>2, <2>1, <2>2, <1>2 DEF IsFree
      <3>3. CASE a \notin DOMAIN hdr
        <4>1. hdr'[a].next = hdr[h].next /\ hdr[h].next \in DOMAIN hdr
          BY <3>3, <2>2, <1>1, <1>2, ListFacts
        <4> QED
          BY <4>1, <3>1, <2>1, <2>2, <1>2 DEF IsFree
      <3> QED
        BY <3>2, <3>3, <2>2, <1>2
    <2> QED
      BY <2>2 DEF Coalesced, IsFree
  <1>9. RefusedOnlyWhenFull'
    BY <1>3 DEF RefusedOnlyWhenFull, NULL
  <1>10. CallState'
    <2>1. PtrOf(h) \notin DOMAIN owned
      BY <1>3, <1>5
    <2>2. ptr # NULL => ptr \in DOMAIN owned
      BY DEF HeapInv, CallState
    <2>3. HeaderOf(res') = h
      BY <1>3
    <2>4. req' <= hdr'[h].size
      BY <1>1, <1>2
    <2> QED
      BY <2>1, <2>2, <2>3, <2>4, <1>2 DEF CallState, HeaderOf, NULL
  <1> QED
    BY <1>4, <1>6, <1>7, <1>8, <1>9, <1>10 DEF HeapInv


LEMMA AppendStep == HeapInv /\ ScanAppend => HeapInv'
  <1> SUFFICES ASSUME HeapInv, ScanAppend PROVE HeapInv'
    OBVIOUS
  <1>1. /\ List /\ req \in Nat /\ cur \in DOMAIN hdr /\ hdr[cur].next = NULL
        /\ RoomBehind(cur, req) /\ AppendHeader(cur, req)
        /\ pc = "scan" /\ pc' = "malloced" /\ res' = PtrOf(EndOf(cur)) /\ cur' = NULL
        /\ req' = req /\ ptr' = ptr /\ owned' = owned
    BY InvList DEF HeapInv, TypeOK, CallState, ScanAppend
  <1> DEFINE new == EndOf(cur)
  <1>2. /\ List'
        /\ new \in Nat /\ new \notin DOMAIN hdr
        /\ DOMAIN hdr' = DOMAIN hdr \cup {new}
        /\ hdr'[new].taken /\ hdr'[new].size = req /\ hdr'[new].next = NULL
        /\ \A a \in DOMAIN hdr : hdr'[a].taken = hdr[a].taken /\ hdr'[a].size = hdr[a].size
        /\ \A a \in DOMAIN hdr \ {cur} : hdr'[a].next = hdr[a].next
        /\ hdr'[cur].next = new
    BY <1>1, AppendKeepsList
  <1> HIDE DEF new
  <1>3. PtrOf(new) \in Nat /\ PtrOf(new) # NULL /\ HeaderOf(PtrOf(new)) = new /\ res' = PtrOf(new)
    BY <1>1, <1>2, Pointers DEF new
  <1>4. TypeOK' /\ WellLinked'
    BY <1>1, <1>2, <1>3 DEF HeapInv, TypeOK, List, HeadersOK, NULL
  <1>5. OwnedBacked'
    BY <1>1, <1>2 DEF HeapInv, OwnedBacked, HeaderOf
  <1>6. Accounted'
    BY <1>1, <1>2, <1>3 DEF HeapInv, Accounted, PtrOf
  <1>7. Coalesced'
    <2>1. ASSUME NEW a \in DOMAIN hdr', ~hdr'[a].taken, hdr'[a].next # NULL, ~hdr'[hdr'[a].next].taken
          PROVE  FALSE
      <3>1. a \in DOMAIN hdr \ {cur}
        BY <2>1, <1>2
      <3>2. hdr'[a].next = hdr[a].next /\ hdr[a].next \in DOMAIN hdr
        BY <3>1, <2>1, <1>1, <1>2, ListFacts
      <3> QED
        BY <3>1, <3>2, <2>1, <1>1, <1>2 DEF HeapInv, Coalesced, IsFree
    <2> QED
      BY <2>1 DEF Coalesced, IsFree
  <1>8. RefusedOnlyWhenFull'
    BY <1>3 DEF RefusedOnlyWhenFull, NULL
  <1>9. CallState'
    <2>1. PtrOf(new) \notin DOMAIN owned
      BY <1>2, <1>3 DEF HeapInv, OwnedBacked
    <2>2. ptr # NULL => ptr \in DOMAIN owned
      BY <1>1 DEF HeapInv, CallState
    <2>3. HeaderOf(res') = new /\ req' <= hdr'[new].size
      BY <1>1, <1>2, <1>3
    <2> QED
      BY <2>1, <2>2, <2>3, <1>1, <1>2, <1>3 DEF CallState, HeaderOf, NULL
  <1> QED
    BY <1>4, <1>5, <1>6, <1>7, <1>8, <1>9 DEF HeapInv

(* A round of a merge loop: h absorbs gone, and cur stays or becomes h.    *)
LEMMA AbsorbStep ==
  ASSUME HeapInv, NEW h \in DOMAIN hdr, NEW gone \in DOMAIN hdr,
         hdr[h].next = gone, ~hdr[h].taken, ~hdr[gone].taken, hdr' = Absorb(h, gone),
         \/ pc = "mergeNext" /\ cur = h
         \/ pc = "mergePrev" /\ cur = gone,
         cur' = h, pc' = pc, req' = req, ptr' = ptr, res' = res, owned' = owned
  PROVE  HeapInv'
  <1>1. List
    BY InvList
  <1>2. /\ List'
        /\ h # gone /\ hdr[gone].prev = h
        /\ DOMAIN hdr' = DOMAIN hdr \ {gone}
        /\ hdr'[h].next = hdr[gone].next
        /\ \A a \in DOMAIN hdr' : hdr'[a].taken = hdr[a].taken
        /\ \A a \in DOMAIN hdr' \ {h} : hdr'[a].size = hdr[a].size
        /\ \A a \in DOMAIN hdr' \ {h} : hdr'[a].next = hdr[a].next
    BY <1>1, AbsorbKeepsList
  <1>3. TypeOK' /\ WellLinked'
    BY <1>2, <1>1, ListFacts DEF HeapInv, TypeOK, List, HeadersOK
  <1>4. OwnedBacked'
    BY <1>2 DEF HeapInv, OwnedBacked, HeaderOf
  <1>5. Accounted'
    BY <1>2 DEF HeapInv, Accounted, PtrOf
  <1>6. Coalesced'
    <2>1. ASSUME NEW a \in DOMAIN hdr', ~hdr'[a].taken, hdr'[a].next # NULL, ~hdr'[hdr'[a].next].taken
          PROVE  \/ pc = "mergeNext" /\ h \in {a, hdr'[a].next}
                 \/ pc = "mergePrev" /\ h = hdr'[a].next
      <3>1. hdr'[a].next \in DOMAIN hdr'
        BY <2>1, <1>2 DEF List, WellLinked, LinksAgree
      <3>2. CASE a = h
        <4>1. hdr[gone].next # NULL /\ ~hdr[hdr[gone].next].taken /\ hdr'[a].next = hdr[gone].next
          BY <2>1, <3>1, <3>2, <1>2
        <4>2. pc # "mergePrev"
          BY <4>1 DEF HeapInv, CallState, IsFree
        <4> QED
          BY <4>2, <3>2
      <3>3. CASE a # h
        <4>1. a \in DOMAIN hdr /\ hdr'[a].next = hdr[a].next
          BY <3>3, <1>2
        <4>2. ~hdr[a].taken /\ IsFree(hdr[a].next)
          BY <4>1, <2>1, <3>1, <1>2 DEF IsFree
        <4>3. \/ pc = "mergeNext" /\ h \in {a, hdr[a].next}
              \/ pc = "mergePrev" /\ gone = hdr[a].next
          BY <4>1, <4>2 DEF HeapInv, Coalesced
        <4> QED
          BY <4>1, <4>3, <3>1, <1>2
      <3> QED
        BY <3>2, <3>3
    <2> QED
      BY <2>1 DEF Coalesced, IsFree
  <1>7. RefusedOnlyWhenFull'
    BY DEF RefusedOnlyWhenFull
  <1>8. CallState'
    <2>1. pc = "mergePrev" => ~IsFree(hdr[gone].next)
      BY DEF HeapInv, CallState
    <2>2. hdr[gone].next # NULL => hdr[gone].next \in DOMAIN hdr'
      BY <1>2 DEF List, WellLinked, LinksAgree
    <2> QED
      BY <2>1, <2>2, <1>2 DEF HeapInv, CallState, IsFree
  <1> QED
    BY <1>3, <1>4, <1>5, <1>6, <1>7, <1>8 DEF HeapInv

LEMMA FreeMarkStep == HeapInv /\ FreeMark => HeapInv'
  <1> SUFFICES ASSUME HeapInv, FreeMark PROVE HeapInv'
    OBVIOUS
  <1> DEFINE h == HeaderOf(ptr)
  <1>1. /\ h \in DOMAIN hdr /\ hdr[h].taken /\ ptr \notin DOMAIN owned /\ ptr \in Nat
        /\ hdr' = [hdr EXCEPT ![h].taken = FALSE]
        /\ pc = "free" /\ pc' = "mergeNext" /\ cur' = h /\ ptr' = NULL
        /\ req' = req /\ res' = res /\ owned' = owned
    BY DEF HeapInv, TypeOK, CallState, FreeMark
  <1>2. List /\ h \in Nat /\ hdr[h] \in Header /\ PtrOf(h) = ptr
    BY <1>1, InvList, ListFacts, Pointers
  <1> HIDE DEF h
  <1>3. hdr'[h] = [next |-> hdr[h].next, prev |-> hdr[h].prev,
                   size |-> hdr[h].size, taken |-> FALSE]
    BY <1>1, <1>2 DEF Header
  <1>4. /\ DOMAIN hdr' = DOMAIN hdr /\ hdr' = [a \in DOMAIN hdr |-> hdr'[a]]
        /\ \A a \in DOMAIN hdr \ {h} : hdr'[a] = hdr[a]
    BY <1>1
  <1>5. /\ ~hdr'[h].taken
        /\ \A a \in DOMAIN hdr : /\ hdr'[a].next = hdr[a].next /\ hdr'[a].prev = hdr[a].prev
                                 /\ hdr'[a].size = hdr[a].size
        /\ \A a \in DOMAIN hdr \ {h} : hdr'[a].taken = hdr[a].taken
    BY <1>3, <1>4
  <1>6. TypeOK'
    <2>1. hdr'[h] \in Header
      BY <1>2, <1>3 DEF Header
    <2>2. \A a \in DOMAIN hdr' : hdr'[a] \in Header
      BY <2>1, <1>2, <1>4, ListFacts
    <2> QED
      BY <2>2, <1>1, <1>2, <1>4 DEF HeapInv, TypeOK, NULL
  <1>7. WellLinked'
    <2>1. \A a \in DOMAIN hdr : EndOf(a)' = EndOf(a)
      BY <1>5 DEF EndOf
    <2> QED
      BY <2>1, <1>4, <1>5 DEF HeapInv, WellLinked, LinksAgree, InArena, InOrder, MEM_END
  <1>8. \A p \in DOMAIN owned : HeaderOf(p) # h
    <2> SUFFICES ASSUME NEW p \in DOMAIN owned, HeaderOf(p) = h PROVE FALSE
      OBVIOUS
    <2>1. p \in Nat
      BY DEF HeapInv, TypeOK
    <2> QED
      BY <2>1, <1>1, <1>2, HeapAssumption DEF HeaderOf, PtrOf
  <1>9. OwnedBacked'
    BY <1>1, <1>4, <1>5, <1>8 DEF HeapInv, OwnedBacked, HeaderOf
  <1>10. Accounted'
    <2>1. \A a \in DOMAIN hdr : PtrOf(a) = ptr => a = h
      BY <1>2, HeapAssumption DEF List, HeadersOK, PtrOf
    <2> QED
      BY <2>1, <1>1, <1>4, <1>5 DEF HeapInv, Accounted, PtrOf
  <1>11. Coalesced'
    BY <1>1, <1>4, <1>5 DEF HeapInv, Coalesced, IsFree
  <1>12. RefusedOnlyWhenFull' /\ CallState'
    BY <1>1, <1>4, <1>5 DEF HeapInv, RefusedOnlyWhenFull, CallState
  <1> QED
    BY <1>6, <1>7, <1>9, <1>10, <1>11, <1>12 DEF HeapInv


(***************************************************************************)
(* Every step keeps the invariant                                          *)
(***************************************************************************)

(* The steps that leave the list alone only need the facts about it again. *)
LEMMA ListUnchanged ==
  ASSUME HeapInv, hdr' = hdr
  PROVE  WellLinked'
  BY DEF HeapInv, WellLinked, LinksAgree, InArena, InOrder, EndOf, MEM_END

LEMMA CallKeepsInv == HeapInv /\ Call => HeapInv'
  <1> SUFFICES ASSUME HeapInv, Call PROVE HeapInv'
    OBVIOUS
  <1>1. ASSUME NEW n \in Nat, CallMalloc(n) PROVE HeapInv'
    <2>1. hdr' = hdr /\ pc = "idle" /\ pc' = "malloc" /\ req' = n
          /\ UNCHANGED <<cur, ptr, res, owned>>
      BY <1>1 DEF CallMalloc
    <2> QED
      BY <2>1, ListUnchanged
      DEF HeapInv, TypeOK, OwnedBacked, Accounted, Coalesced, RefusedOnlyWhenFull, CallState,
          IsFree, HeaderOf, PtrOf
  <1>2. ASSUME NEW p \in DOMAIN owned, CallFree(p) PROVE HeapInv'
    <2>1. /\ hdr' = hdr /\ pc = "idle" /\ pc' = "free" /\ ptr' = p
          /\ DOMAIN owned' = DOMAIN owned \ {p}
          /\ owned' = [q \in DOMAIN owned' |-> owned'[q]]
          /\ \A q \in DOMAIN owned' : owned'[q] = owned[q]
          /\ UNCHANGED <<cur, req, res>>
      BY <1>2 DEF CallFree, Without
    <2>2. p \in Nat /\ p # NULL /\ HeaderOf(p) \in DOMAIN hdr /\ hdr[HeaderOf(p)].taken
      BY DEF HeapInv, TypeOK, OwnedBacked
    <2>3. TypeOK' /\ WellLinked'
      BY <2>1, <2>2, ListUnchanged DEF HeapInv, TypeOK
    <2>4. OwnedBacked' /\ Coalesced' /\ RefusedOnlyWhenFull'
      BY <2>1 DEF HeapInv, OwnedBacked, Coalesced, RefusedOnlyWhenFull, IsFree, HeaderOf
    <2>5. Accounted'
      BY <2>1 DEF HeapInv, Accounted, PtrOf
    <2>6. CallState'
      BY <2>1, <2>2 DEF HeapInv, CallState, HeaderOf
    <2> QED
      BY <2>3, <2>4, <2>5, <2>6 DEF HeapInv
  <1>3. ASSUME NEW p \in DOMAIN owned, NEW n \in Nat, ReallocInPlace(p, n) PROVE HeapInv'
    <2>1. /\ hdr' = hdr /\ n <= hdr[HeaderOf(p)].size
          /\ DOMAIN owned' = DOMAIN owned
          /\ owned' = [owned EXCEPT ![p] = n]
          /\ UNCHANGED <<pc, cur, req, ptr, res>>
      BY <1>3 DEF ReallocInPlace
    <2>2. TypeOK' /\ WellLinked'
      BY <2>1, ListUnchanged DEF HeapInv, TypeOK
    <2>3. OwnedBacked' /\ Accounted' /\ Coalesced' /\ RefusedOnlyWhenFull'
      BY <2>1 DEF HeapInv, OwnedBacked, Accounted, Coalesced, RefusedOnlyWhenFull,
                  IsFree, Fits, RoomBehind, EndOf, HeaderOf, PtrOf
    <2>4. CallState'
      BY <2>1 DEF HeapInv, CallState, IsFree, Fits, HeaderOf
    <2> QED
      BY <2>2, <2>3, <2>4 DEF HeapInv
  <1>4. ASSUME NEW p \in DOMAIN owned, NEW n \in Nat, ReallocMove(p, n) PROVE HeapInv'
    <2>1. hdr' = hdr /\ pc = "idle" /\ pc' = "malloc" /\ req' = n /\ ptr' = p
          /\ UNCHANGED <<cur, res, owned>>
      BY <1>4 DEF ReallocMove
    <2> QED
      BY <2>1, ListUnchanged
      DEF HeapInv, TypeOK, OwnedBacked, Accounted, Coalesced, RefusedOnlyWhenFull, CallState,
          IsFree, HeaderOf, PtrOf
  <1> QED
    BY <1>1, <1>2, <1>3, <1>4, HeapAssumption DEF Call, CallCalloc, ReallocZero

LEMMA MallocKeepsInv ==
  HeapInv /\ (MallocRefuse \/ TakeInitialHeader \/ StartScan \/ ScanTake \/ ScanNext \/ ScanFail)
    => HeapInv'
  <1> SUFFICES ASSUME HeapInv PROVE
        (MallocRefuse \/ TakeInitialHeader \/ StartScan \/ ScanTake \/ ScanNext \/ ScanFail)
          => HeapInv'
    OBVIOUS
  <1>0. List /\ req \in Nat
    BY InvList DEF HeapInv, TypeOK
  <1>1. ASSUME MallocRefuse PROVE HeapInv'
    <2>1. /\ hdr' = hdr /\ pc = "malloc" /\ pc' = "malloced" /\ res' = NULL /\ ~EnoughRoom(req)
          /\ UNCHANGED <<cur, req, ptr, owned>>
      BY <1>1 DEF MallocRefuse
    <2>2. \A h \in DOMAIN hdr : ~Fits(h, req) /\ ~RoomBehind(h, req)
      <3> SUFFICES ASSUME NEW h \in DOMAIN hdr PROVE ~Fits(h, req) /\ ~RoomBehind(h, req)
        OBVIOUS
      <3>1. h \in Nat /\ hdr[h].size \in Nat /\ MEM_ADDR_START <= h /\ EndOf(h) <= MEM_END
        BY <1>0, ListFacts DEF List, WellLinked, InArena
      <3> QED
        BY <3>1, <2>1, <1>0, HeapAssumption DEF EnoughRoom, Fits, RoomBehind, EndOf, MEM_END
    <2>3. RefusedOnlyWhenFull'
      BY <2>1, <2>2, <1>0, ListFacts, HeapAssumption
      DEF RefusedOnlyWhenFull, Fits, RoomBehind, EndOf, MEM_END
    <2>4. TypeOK' /\ WellLinked'
      BY <2>1, ListUnchanged DEF HeapInv, TypeOK, NULL
    <2> QED
      BY <2>1, <2>3, <2>4
      DEF HeapInv, OwnedBacked, Accounted, Coalesced, CallState, IsFree, HeaderOf, PtrOf
  <1>2. ASSUME TakeInitialHeader PROVE HeapInv'
    <2>1. /\ MEM_ADDR_START \in DOMAIN hdr /\ ~hdr[MEM_ADDR_START].taken
          /\ cur' \in Nat
      BY <1>2 DEF TakeInitialHeader, InitialIsAlone, HeapInv, WellLinked, LinksAgree, TypeOK
    <2> QED
      BY <2>1, <1>2, TakeStep DEF TakeInitialHeader
  <1>3. ASSUME StartScan PROVE HeapInv'
    <2>1. /\ hdr' = hdr /\ pc = "malloc" /\ pc' = "scan" /\ cur' = MEM_ADDR_START
          /\ UNCHANGED <<req, ptr, res, owned>>
      BY <1>3 DEF StartScan
    <2>2. \A h \in DOMAIN hdr : ~(h < MEM_ADDR_START)
      BY HeapAssumption DEF HeapInv, TypeOK, WellLinked, InArena
    <2>3. CallState'
      BY <2>1, <2>2 DEF HeapInv, WellLinked, LinksAgree, CallState
    <2>4. TypeOK' /\ WellLinked'
      BY <2>1, ListUnchanged, HeapAssumption DEF HeapInv, TypeOK
    <2> QED
      BY <2>1, <2>3, <2>4
      DEF HeapInv, OwnedBacked, Accounted, Coalesced, RefusedOnlyWhenFull, IsFree, HeaderOf, PtrOf
  <1>4. ASSUME ScanTake PROVE HeapInv'
    <2>1. cur \in DOMAIN hdr /\ ~hdr[cur].taken /\ req <= hdr[cur].size
      BY <1>4, <1>0, ListFacts DEF ScanTake, Fits, HeapInv, CallState
    <2> QED
      BY <2>1, <1>4, TakeStep DEF ScanTake, NULL
  <1>5. ASSUME ScanNext PROVE HeapInv'
    <2>1. /\ hdr' = hdr /\ pc = "scan" /\ cur \in DOMAIN hdr /\ ~Fits(cur, req)
          /\ hdr[cur].next # NULL /\ cur' = hdr[cur].next
          /\ UNCHANGED <<pc, req, ptr, res, owned>>
      BY <1>5 DEF ScanNext, HeapInv, CallState
    <2>2. cur' \in DOMAIN hdr /\ cur' \in Nat
      BY <2>1, <1>0, ListFacts
    <2>3. \A h \in DOMAIN hdr : h < cur' => ~Fits(h, req)
      <3> SUFFICES ASSUME NEW h \in DOMAIN hdr, h < cur' PROVE ~Fits(h, req)
        OBVIOUS
      <3>1. h \in Nat /\ cur \in Nat
        BY <2>1, <1>0, ListFacts
      <3>2. ~(cur < h)
        BY <3>1, <2>1, <2>2 DEF HeapInv, WellLinked, InOrder
      <3> QED
        BY <3>1, <3>2, <2>1 DEF HeapInv, CallState
    <2>4. CallState'
      BY <2>1, <2>2, <2>3 DEF HeapInv, CallState, Fits
    <2>5. TypeOK' /\ WellLinked'
      BY <2>1, <2>2, ListUnchanged DEF HeapInv, TypeOK
    <2> QED
      BY <2>1, <2>4, <2>5
      DEF HeapInv, OwnedBacked, Accounted, Coalesced, RefusedOnlyWhenFull, IsFree, HeaderOf, PtrOf
  <1>6. ASSUME ScanFail PROVE HeapInv'
    <2>1. /\ hdr' = hdr /\ pc = "scan" /\ pc' = "malloced" /\ res' = NULL /\ cur' = NULL
          /\ cur \in DOMAIN hdr /\ ~Fits(cur, req) /\ hdr[cur].next = NULL /\ ~RoomBehind(cur, req)
          /\ UNCHANGED <<req, ptr, owned>>
      BY <1>6 DEF ScanFail, HeapInv, CallState
    <2>2. ASSUME NEW h \in DOMAIN hdr
          PROVE  ~Fits(h, req) /\ (hdr[h].next = NULL => ~RoomBehind(h, req))
      <3>1. h \in Nat /\ cur \in Nat
        BY <2>1, <1>0, ListFacts
      <3>2. ~(cur < h) /\ (h < cur => hdr[h].next # NULL)
        BY <2>1 DEF HeapInv, WellLinked, InOrder
      <3> QED
        BY <3>1, <3>2, <2>1 DEF HeapInv, CallState
    <2>3. RefusedOnlyWhenFull'
      BY <2>1, <2>2, <1>0, ListFacts, HeapAssumption
      DEF RefusedOnlyWhenFull, Fits, RoomBehind, EndOf, MEM_END
    <2>4. TypeOK' /\ WellLinked'
      BY <2>1, ListUnchanged DEF HeapInv, TypeOK, NULL
    <2> QED
      BY <2>1, <2>3, <2>4
      DEF HeapInv, OwnedBacked, Accounted, Coalesced, CallState, IsFree, HeaderOf, PtrOf
  <1> QED
    BY <1>1, <1>2, <1>3, <1>4, <1>5, <1>6


LEMMA ReturnKeepsInv ==
  HeapInv /\ (MallocReturn \/ ReallocFail \/ ReallocCopy) => HeapInv'
  <1> SUFFICES ASSUME HeapInv, MallocReturn \/ ReallocFail \/ ReallocCopy PROVE HeapInv'
    OBVIOUS
  <1>0. hdr' = hdr /\ pc = "malloced" /\ cur' = cur /\ req' = 0 /\ req \in Nat /\ res \in Nat
    BY DEF MallocReturn, ReallocFail, ReallocCopy, HeapInv, TypeOK
  <1>1. WellLinked'
    BY <1>0, ListUnchanged
  <1>2. ASSUME MallocReturn, res # NULL PROVE HeapInv'
    <2>1. /\ ptr = NULL /\ ptr' = NULL /\ pc' = "idle" /\ res' = NULL
          /\ DOMAIN owned' = DOMAIN owned \cup {res} /\ res \notin DOMAIN owned
          /\ owned' = [p \in DOMAIN owned' |-> owned'[p]]
          /\ owned'[res] = req /\ \A p \in DOMAIN owned : owned'[p] = owned[p]
          /\ HeaderOf(res) \in DOMAIN hdr /\ hdr[HeaderOf(res)].taken
          /\ req <= hdr[HeaderOf(res)].size
      BY <1>0, <1>2 DEF MallocReturn, With, HeapInv, CallState
    <2>2. TypeOK'
      BY <1>0, <1>2, <2>1 DEF HeapInv, TypeOK, NULL
    <2>3. OwnedBacked' /\ Accounted' /\ Coalesced'
      BY <1>0, <2>1 DEF HeapInv, OwnedBacked, Accounted, Coalesced, IsFree, HeaderOf, PtrOf
    <2>4. RefusedOnlyWhenFull' /\ CallState'
      BY <2>1 DEF RefusedOnlyWhenFull, CallState
    <2> QED
      BY <1>1, <2>2, <2>3, <2>4 DEF HeapInv
  <1>3. ASSUME MallocReturn \/ ReallocFail, res = NULL PROVE HeapInv'
    <2>1. ptr' = NULL /\ pc' = "idle" /\ res' = NULL /\ owned' = owned
      BY <1>3 DEF MallocReturn, ReallocFail
    <2>2. TypeOK'
      BY <1>0, <2>1 DEF HeapInv, TypeOK, NULL
    <2>3. OwnedBacked' /\ Coalesced' /\ RefusedOnlyWhenFull' /\ CallState'
      BY <1>0, <2>1 DEF HeapInv, OwnedBacked, Coalesced, IsFree, HeaderOf, RefusedOnlyWhenFull, CallState
    <2>4. Accounted'
      <3>1. \A h \in DOMAIN hdr : PtrOf(h) # NULL
        BY InvList, ListFacts, Pointers
      <3> QED
        BY <1>0, <1>3, <2>1, <3>1 DEF HeapInv, Accounted, PtrOf
    <2> QED
      BY <1>1, <2>2, <2>3, <2>4 DEF HeapInv
  <1>4. ASSUME ReallocCopy PROVE HeapInv'
    <2>1. /\ ptr # NULL /\ res # NULL /\ pc' = "free" /\ res' = NULL /\ ptr' = ptr
          /\ res \notin DOMAIN owned /\ ptr \in DOMAIN owned
          /\ DOMAIN owned' = (DOMAIN owned \ {ptr}) \cup {res}
          /\ owned' = [p \in DOMAIN owned' |-> owned'[p]]
          /\ owned'[res] = req /\ \A p \in DOMAIN owned \ {ptr} : owned'[p] = owned[p]
          /\ HeaderOf(res) \in DOMAIN hdr /\ hdr[HeaderOf(res)].taken
          /\ req <= hdr[HeaderOf(res)].size
          /\ HeaderOf(ptr) \in DOMAIN hdr /\ hdr[HeaderOf(ptr)].taken
      BY <1>0, <1>4 DEF ReallocCopy, With, Without, HeapInv, CallState, OwnedBacked
    <2>2. TypeOK'
      BY <1>0, <2>1 DEF HeapInv, TypeOK, NULL
    <2>3. OwnedBacked' /\ Coalesced' /\ RefusedOnlyWhenFull'
      BY <1>0, <2>1 DEF HeapInv, OwnedBacked, Coalesced, IsFree, HeaderOf, RefusedOnlyWhenFull
    <2>4. Accounted'
      BY <1>0, <2>1 DEF HeapInv, Accounted, PtrOf
    <2>5. CallState'
      BY <1>0, <2>1 DEF CallState, HeaderOf
    <2> QED
      BY <1>1, <2>2, <2>3, <2>4, <2>5 DEF HeapInv
  <1> QED
    BY <1>2, <1>3, <1>4 DEF ReallocFail

LEMMA MergeKeepsInv ==
  HeapInv /\ (MergeNext \/ MergeNextDone \/ MergePrev \/ MergePrevDone) => HeapInv'
  <1> SUFFICES ASSUME HeapInv, MergeNext \/ MergeNextDone \/ MergePrev \/ MergePrevDone
               PROVE  HeapInv'
    OBVIOUS
  <1>0. List /\ cur \in DOMAIN hdr /\ ~hdr[cur].taken
    BY InvList DEF MergeNext, MergeNextDone, MergePrev, MergePrevDone, HeapInv, CallState
  <1>1. ASSUME MergeNext PROVE HeapInv'
    <2>1. hdr[cur].next \in DOMAIN hdr /\ ~hdr[hdr[cur].next].taken
      BY <1>0, <1>1, ListFacts DEF MergeNext, IsFree
    <2> QED
      BY <1>0, <1>1, <2>1, AbsorbStep DEF MergeNext
  <1>2. ASSUME MergePrev PROVE HeapInv'
    <2>1. hdr[cur].prev \in DOMAIN hdr /\ ~hdr[hdr[cur].prev].taken
      BY <1>0, <1>2, ListFacts DEF MergePrev, IsFree
    <2>2. hdr[hdr[cur].prev].next = cur
      BY <1>0, <1>2 DEF MergePrev, IsFree, List, WellLinked, LinksAgree
    <2> QED
      BY <1>0, <1>2, <2>1, <2>2, AbsorbStep DEF MergePrev
  <1>3. ASSUME MergeNextDone PROVE HeapInv'
    <2>1. /\ hdr' = hdr /\ pc = "mergeNext" /\ pc' = "mergePrev" /\ ~IsFree(hdr[cur].next)
          /\ UNCHANGED <<cur, req, ptr, res, owned>>
      BY <1>3 DEF MergeNextDone
    <2>2. Coalesced'
      BY <2>1 DEF HeapInv, Coalesced, IsFree
    <2> QED
      BY <2>1, <2>2, ListUnchanged
      DEF HeapInv, TypeOK, OwnedBacked, Accounted, RefusedOnlyWhenFull, CallState,
          IsFree, HeaderOf, PtrOf
  <1>4. ASSUME MergePrevDone PROVE HeapInv'
    <2>1. /\ hdr' = hdr /\ pc = "mergePrev" /\ pc' = "idle" /\ ~IsFree(hdr[cur].prev)
          /\ cur' = NULL
          /\ UNCHANGED <<req, ptr, res, owned>>
      BY <1>4 DEF MergePrevDone
    <2>2. Coalesced'
      <3>1. \A a \in DOMAIN hdr : hdr[a].next = cur => hdr[cur].prev = a
        BY <1>0, ListFacts DEF List, WellLinked, LinksAgree
      <3>2. \A a \in DOMAIN hdr : ~hdr[a].taken /\ hdr[a].next = cur => IsFree(hdr[cur].prev)
        BY <3>1, <1>0, ListFacts DEF IsFree
      <3> QED
        BY <3>2, <2>1 DEF HeapInv, Coalesced, IsFree
    <2>3. CallState'
      BY <2>1 DEF HeapInv, CallState
    <2> QED
      BY <2>1, <2>2, <2>3, ListUnchanged
      DEF HeapInv, TypeOK, OwnedBacked, Accounted, RefusedOnlyWhenFull, HeaderOf, PtrOf, NULL
  <1> QED
    BY <1>1, <1>2, <1>3, <1>4

LEMMA StutterKeepsInv == HeapInv /\ UNCHANGED vars => HeapInv'
  BY ListUnchanged
  DEF vars, HeapInv, TypeOK, OwnedBacked, Accounted, Coalesced, RefusedOnlyWhenFull, CallState,
      IsFree, Fits, RoomBehind, EndOf, HeaderOf, PtrOf


LEMMA InvStep == HeapInv /\ [Next]_vars => HeapInv'
  BY CallKeepsInv, MallocKeepsInv, AppendStep, ReturnKeepsInv, FreeMarkStep, MergeKeepsInv,
     StutterKeepsInv
  DEF Next, Step

(* Every reachable state of every heap satisfies the inductive invariant.  *)
THEOREM Invariance == Spec => []HeapInv
  BY InvInit, InvStep, PTL DEF Spec

(* The type invariant of the header list, the call and the client.         *)
THEOREM TypeCorrect == Spec => []TypeOK
  <1>1. HeapInv => TypeOK
    BY DEF HeapInv
  <1> QED
    BY <1>1, Invariance, PTL

(* The list stays sorted, consistently linked and inside the arena.        *)
THEOREM ListSafety == Spec => []WellLinked
  <1>1. HeapInv => WellLinked
    BY DEF HeapInv
  <1> QED
    BY <1>1, Invariance, PTL

(* Two payloads of the client never share a byte, nor does one with a      *)
(* header: the blocks behind them are ordered, and each is large enough.   *)
THEOREM NoOverlap == Spec => []OwnedDisjoint
  <1>1. HeapInv => OwnedDisjoint
    <2> SUFFICES ASSUME HeapInv PROVE OwnedDisjoint
      OBVIOUS
    <2>1. ASSUME NEW p \in DOMAIN owned, NEW h \in DOMAIN hdr, p <= h
          PROVE  p + owned[p] <= h
      <3> DEFINE g == HeaderOf(p)
      <3>1. /\ p \in Nat /\ owned[p] \in Nat /\ g \in DOMAIN hdr /\ owned[p] <= hdr[g].size
        BY DEF HeapInv, TypeOK, OwnedBacked
      <3>2. g \in Nat /\ h \in Nat /\ hdr[g].size \in Nat /\ hdr[g].next \in Nat
        BY <3>1, InvList, ListFacts
      <3>3. g < h
        BY <3>1, <3>2, <2>1, HeapAssumption DEF HeaderOf
      <3>4. hdr[g].next # NULL /\ hdr[g].next <= h /\ EndOf(g) <= hdr[g].next
        BY <3>1, <3>3 DEF HeapInv, WellLinked, InOrder
      <3>5. EndOf(g) = p + hdr[g].size
        BY <3>1, <3>2, HeapAssumption DEF EndOf, HeaderOf
      <3> QED
        BY <3>1, <3>2, <3>4, <3>5
    <2>2. ASSUME NEW p \in DOMAIN owned, NEW q \in DOMAIN owned, p < q
          PROVE  p + owned[p] <= q - HEADER_SIZE
      <3>1. /\ p \in Nat /\ q \in Nat /\ owned[p] \in Nat
            /\ HeaderOf(q) \in DOMAIN hdr /\ HeaderOf(p) \in DOMAIN hdr
        BY DEF HeapInv, TypeOK, OwnedBacked
      <3>2. HeaderOf(p) < HeaderOf(q)
        BY <3>1, <2>2, HeapAssumption DEF HeaderOf
      <3>3. /\ hdr[HeaderOf(p)].next # NULL /\ hdr[HeaderOf(p)].next <= HeaderOf(q)
            /\ EndOf(HeaderOf(p)) <= hdr[HeaderOf(p)].next
        BY <3>1, <3>2 DEF HeapInv, WellLinked, InOrder
      <3>4. p <= EndOf(HeaderOf(p)) /\ EndOf(HeaderOf(p)) \in Nat /\ hdr[HeaderOf(p)].next \in Nat
            /\ HeaderOf(q) \in Nat
        BY <3>1, InvList, ListFacts, HeapAssumption DEF EndOf, HeaderOf
      <3>5. p <= HeaderOf(q)
        BY <3>1, <3>3, <3>4
      <3> QED
        BY <3>1, <3>5, <2>1 DEF HeaderOf
    <2> QED
      BY <2>1, <2>2 DEF HeapInv, OwnedDisjoint
  <1> QED
    BY <1>1, Invariance, PTL

(* Every taken block is the client's or in the hands of the call.          *)
THEOREM NothingLeaks == Spec => []Accounted
  <1>1. HeapInv => Accounted
    BY DEF HeapInv
  <1> QED
    BY <1>1, Invariance, PTL

(* free leaves no two free neighbours behind.                              *)
THEOREM FullyMerged == Spec => []Coalesced
  <1>1. HeapInv => Coalesced
    BY DEF HeapInv
  <1> QED
    BY <1>1, Invariance, PTL

(* No block is lost and no free neighbours remain, so a heap whose client  *)
(* gave everything back is one free header again.                          *)
THEOREM Drained == Spec => []DrainedHeapIsWhole
  <1>1. HeapInv => DrainedHeapIsWhole
    <2> SUFFICES ASSUME HeapInv, pc = "idle", owned = [p \in {} |-> 0]
                 PROVE  DOMAIN hdr = {MEM_ADDR_START} /\ InitialIsAlone
      BY DEF DrainedHeapIsWhole
    <2>1. \A h \in DOMAIN hdr : ~hdr[h].taken
      BY DEF HeapInv, Accounted
    <2>2. \A h \in DOMAIN hdr : hdr[h].next = NULL
      BY <2>1 DEF HeapInv, Coalesced, IsFree, WellLinked, LinksAgree
    <2>3. MEM_ADDR_START \in DOMAIN hdr /\ DOMAIN hdr \subseteq Nat
      BY DEF HeapInv, TypeOK, WellLinked, LinksAgree
    <2>4. \A h \in DOMAIN hdr : h = MEM_ADDR_START
      BY <2>2, <2>3 DEF HeapInv, WellLinked, InOrder, InArena
    <2> QED
      BY <2>1, <2>2, <2>3, <2>4 DEF InitialIsAlone
  <1> QED
    BY <1>1, Invariance, PTL

(* NULL means that no free block fits and nothing fits behind the tail.    *)
THEOREM RefusalIsJustified == Spec => []RefusedOnlyWhenFull
  <1>1. HeapInv => RefusedOnlyWhenFull
    BY DEF HeapInv
  <1> QED
    BY <1>1, Invariance, PTL

(***************************************************************************)
(* The bytes.  The list says where headers and payloads lie, and that they *)
(* lie apart; here it is shown that each store of a step stays in the      *)
(* payload it is for, and that the heap with its bytes is an allocator.    *)
(***************************************************************************)

Arena == MEM_ADDR_START..(MEM_END - 1)

Payload(h) == PtrOf(h)..(EndOf(h) - 1)

(* Headers and payloads fill the arena and share no byte. *)
Separate ==
  \A g, h \in DOMAIN hdr :
    /\ \A a \in HeaderBytes(h) : a \in Arena
    /\ \A a \in Payload(h) : a \in Arena /\ a \notin HeaderBytes(g)
    /\ g # h => \A a \in Payload(h) : a \notin Payload(g)

(* What the client may touch through p. *)
Span(p) == p..(p + owned[p] - 1)

OwnedInPayload ==
  \A p \in DOMAIN owned :
    /\ HeaderOf(p) \in DOMAIN hdr /\ hdr[HeaderOf(p)].taken
    /\ p \in Nat /\ owned[p] \in Nat /\ p = PtrOf(HeaderOf(p))
    /\ \A a \in Span(p) : a \in Payload(HeaderOf(p))

(* A block is handed out zeroed, and is larger than the one that realloc   *)
(* copies into it.                                                         *)
Answering == pc \in {"malloc", "scan", "malloced"}

CallBytes ==
  /\ Answering => req \in Requests
  /\ Answering /\ ptr # NULL => hdr[HeaderOf(ptr)].size < req
  /\ pc = "malloced" /\ res # NULL => \A a \in res..(res + req - 1) : mem[a] = "zero"

MemoryInv ==
  /\ HeapInv
  /\ DOMAIN mem = Arena
  /\ HeadersIntact
  /\ CallBytes

(***************************************************************************)
(* Where things lie                                                        *)
(***************************************************************************)
LEMMA Ordered ==
  ASSUME List, NEW g \in DOMAIN hdr, NEW h \in DOMAIN hdr
  PROVE  /\ g \in Nat /\ EndOf(g) \in Nat /\ EndOf(g) = PtrOf(g) + hdr[g].size
         /\ PtrOf(g) = g + HEADER_SIZE /\ hdr[g].size \in Nat
         /\ MEM_ADDR_START <= g /\ EndOf(g) <= MEM_END
         /\ g < h => EndOf(g) <= h
  <1>1. /\ g \in Nat /\ h \in Nat /\ EndOf(g) \in Nat /\ hdr[g].size \in Nat /\ hdr[g].next \in Nat
        /\ MEM_ADDR_START <= g /\ EndOf(g) <= MEM_END
    BY ListFacts DEF List, WellLinked, InArena
  <1>2. g < h => EndOf(g) <= hdr[g].next /\ hdr[g].next <= h
    BY DEF List, WellLinked, InOrder
  <1>3. EndOf(g) = PtrOf(g) + hdr[g].size /\ PtrOf(g) = g + HEADER_SIZE
    BY <1>1, HeapAssumption DEF EndOf, PtrOf
  <1> QED
    BY <1>1, <1>2, <1>3

LEMMA ListSeparate == List => Separate
  <1> SUFFICES ASSUME List, NEW g \in DOMAIN hdr, NEW h \in DOMAIN hdr
               PROVE  /\ \A a \in HeaderBytes(h) : a \in Arena
                      /\ \A a \in Payload(h) : a \in Arena /\ a \notin HeaderBytes(g)
                      /\ g # h => \A a \in Payload(h) : a \notin Payload(g)
    BY DEF Separate
  <1>1. /\ MEM_ADDR_START \in Nat /\ HEADER_SIZE \in Nat \ {0} /\ MEM_END \in Nat
    BY HeapAssumption DEF MEM_END
  <1>2. /\ g \in Nat /\ EndOf(g) \in Nat /\ g + HEADER_SIZE <= EndOf(g) /\ PtrOf(g) = g + HEADER_SIZE
        /\ h \in Nat /\ EndOf(h) \in Nat /\ h + HEADER_SIZE <= EndOf(h) /\ PtrOf(h) = h + HEADER_SIZE
        /\ MEM_ADDR_START <= h /\ EndOf(h) <= MEM_END
        /\ g < h => EndOf(g) <= h
        /\ h < g => EndOf(h) <= g
    BY <1>1, Ordered
  <1> QED
    BY <1>1, <1>2 DEF Arena, Payload, HeaderBytes

LEMMA InvSeparate == HeapInv => Separate /\ List
  BY InvList, ListSeparate

LEMMA InvOwned == HeapInv => OwnedInPayload
  <1> SUFFICES ASSUME HeapInv, NEW p \in DOMAIN owned
               PROVE  /\ HeaderOf(p) \in DOMAIN hdr /\ hdr[HeaderOf(p)].taken
                      /\ p \in Nat /\ owned[p] \in Nat /\ p = PtrOf(HeaderOf(p))
                      /\ \A a \in Span(p) : a \in Payload(HeaderOf(p))
    BY DEF OwnedInPayload
  <1>1. /\ HeaderOf(p) \in DOMAIN hdr /\ hdr[HeaderOf(p)].taken
        /\ p \in Nat /\ owned[p] \in Nat /\ owned[p] <= hdr[HeaderOf(p)].size
    BY DEF HeapInv, TypeOK, OwnedBacked
  <1>2. /\ HeaderOf(p) \in Nat /\ hdr[HeaderOf(p)].size \in Nat
        /\ EndOf(HeaderOf(p)) = PtrOf(HeaderOf(p)) + hdr[HeaderOf(p)].size
    BY <1>1, InvList, Ordered
  <1>3. p = PtrOf(HeaderOf(p))
    BY <1>1, HeapAssumption DEF HeaderOf, PtrOf
  <1> QED
    BY <1>1, <1>2, <1>3 DEF Span, Payload

(* The same of the state after a step. *)
LEMMA InvAfter == HeapInv' => Separate' /\ List' /\ OwnedInPayload'
  <1>1. HeapInv => Separate /\ List /\ OwnedInPayload
    BY InvSeparate, InvOwned
  <1> QED
    BY <1>1, PTL

(***************************************************************************)
(* What the stores of a step leave                                         *)
(***************************************************************************)

(* Nothing the client holds has another byte than before. *)
HeldKept == \A p \in DOMAIN owned : \A a \in Span(p) : mem'[a] = mem[a]

(* malloc gives h out. *)
LEMMA TakenBytes ==
  ASSUME MemoryInv, HeapInv', UNCHANGED owned,
         NEW h \in DOMAIN hdr', hdr'[h].size = req, PtrOf(h) \notin DOMAIN owned,
         DOMAIN hdr \subseteq DOMAIN hdr', StoreTaken(h)
  PROVE  /\ DOMAIN mem' = Arena /\ HeadersIntact' /\ HeldKept
         /\ \A a \in PtrOf(h)..(PtrOf(h) + req - 1) : mem'[a] = "zero"
  <1> DEFINE taken == PtrOf(h)..(PtrOf(h) + req - 1)
             made(a) == \E new \in DOMAIN hdr' \ DOMAIN hdr : a \in HeaderBytes(new)
  <1>1. /\ DOMAIN mem = Arena
        /\ mem' = [a \in Arena |-> IF a \in taken THEN "zero"
                                   ELSE IF made(a) THEN "header" ELSE mem[a]]
    BY DEF MemoryInv, StoreTaken
  <1>2. Separate' /\ OwnedInPayload' /\ List'
    BY InvAfter
  <1>3. /\ \A a \in taken : a \in Arena
        /\ \A a \in taken, g \in DOMAIN hdr' : a \notin HeaderBytes(g)
        /\ \A a \in taken, g \in DOMAIN hdr' \ {h} : a \notin Payload(g)'
    <2>1. Payload(h)' = taken
      <3>1. h \in Nat /\ PtrOf(h) \in Nat /\ req \in Int /\ EndOf(h)' = PtrOf(h) + req
        BY <1>2, HeapAssumption DEF EndOf, PtrOf, List, HeadersOK, Header
      <3>2. EndOf(h)' - 1 = PtrOf(h) + req - 1
        BY <3>1
      <3> QED
        BY <3>2 DEF Payload
    <2> HIDE DEF taken
    <2> QED
      BY <1>2, <2>1 DEF Separate
  <1> HIDE DEF taken, made
  <1>4. \A a \in taken : mem'[a] = "zero"
    BY <1>1, <1>3
  <1>5. ASSUME NEW g \in DOMAIN hdr', NEW a \in HeaderBytes(g) PROVE mem'[a] = "header"
    <2>1. a \in Arena /\ a \notin taken
      BY <1>2, <1>3 DEF Separate
    <2>2. g \notin DOMAIN hdr => made(a)
      BY DEF made
    <2>3. g \in DOMAIN hdr => mem[a] = "header"
      BY DEF MemoryInv, HeadersIntact
    <2> QED
      BY <1>1, <2>1, <2>2, <2>3
  <1>6. ASSUME NEW p \in DOMAIN owned, NEW a \in Span(p) PROVE mem'[a] = mem[a]
    <2>1. HeaderOf(p) \in DOMAIN hdr' /\ a \in Payload(HeaderOf(p))' /\ HeaderOf(p) # h
      BY <1>2 DEF OwnedInPayload, Span
    <2>2. a \in Arena /\ a \notin taken
      BY <1>2, <1>3, <2>1 DEF Separate
    <2>3. ~made(a)
      BY <1>2, <2>1 DEF Separate, made
    <2> QED
      BY <1>1, <2>2, <2>3
  <1> QED
    BY <1>1, <1>4, <1>5, <1>6 DEF HeadersIntact, HeldKept, taken

(* free poisons h. *)
LEMMA PoisonBytes ==
  ASSUME MemoryInv, HeapInv', UNCHANGED owned,
         NEW h \in DOMAIN hdr', ~hdr'[h].taken, DOMAIN hdr' \subseteq DOMAIN hdr, Poison(h)
  PROVE  DOMAIN mem' = Arena /\ HeadersIntact' /\ HeldKept
  <1>1. Separate' /\ OwnedInPayload' /\ List'
    BY InvAfter
  <1>2. Payload(h)' = PtrOf(h)..(PtrOf(h) + hdr'[h].size - 1)
    <2>1. h \in Nat /\ PtrOf(h) \in Nat /\ hdr'[h].size \in Int
          /\ EndOf(h)' = PtrOf(h) + hdr'[h].size
      BY <1>1, HeapAssumption DEF EndOf, PtrOf, List, HeadersOK, Header
    <2>2. EndOf(h)' - 1 = PtrOf(h) + hdr'[h].size - 1
      BY <2>1
    <2> QED
      BY <2>2 DEF Payload
  <1>3. /\ DOMAIN mem = Arena
        /\ mem' = [a \in Arena |-> IF a \in Payload(h)' THEN "dd" ELSE mem[a]]
    BY <1>2 DEF MemoryInv, Poison, Filled
  <1>4. ASSUME NEW g \in DOMAIN hdr', NEW a \in HeaderBytes(g) PROVE mem'[a] = "header"
    <2>1. a \in Arena /\ a \notin Payload(h)'
      BY <1>1 DEF Separate
    <2>2. mem[a] = "header"
      BY DEF MemoryInv, HeadersIntact
    <2> QED
      BY <1>3, <2>1, <2>2
  <1>5. ASSUME NEW p \in DOMAIN owned, NEW a \in Span(p) PROVE mem'[a] = mem[a]
    <2>1. HeaderOf(p) \in DOMAIN hdr' /\ a \in Payload(HeaderOf(p))' /\ HeaderOf(p) # h
      BY <1>1 DEF OwnedInPayload, Span
    <2>2. a \in Arena /\ a \notin Payload(h)'
      BY <1>1, <2>1 DEF Separate
    <2> QED
      BY <1>3, <2>2
  <1> QED
    BY <1>3, <1>4, <1>5 DEF HeadersIntact, HeldKept

(* A store into the payload of h alone, while the list stays. *)
LEMMA StoreInside ==
  ASSUME MemoryInv, UNCHANGED hdr, NEW h \in DOMAIN hdr, DOMAIN mem' = Arena,
         \A a \in Arena : a \notin Payload(h) => mem'[a] = mem[a]
  PROVE  /\ HeadersIntact'
         /\ \A p \in DOMAIN owned \ {PtrOf(h)} : \A a \in Span(p) : mem'[a] = mem[a]
  <1>1. Separate /\ OwnedInPayload
    BY InvSeparate, InvOwned DEF MemoryInv
  <1>2. ASSUME NEW g \in DOMAIN hdr, NEW a \in HeaderBytes(g) PROVE mem'[a] = "header"
    <2>1. a \in Arena /\ a \notin Payload(h)
      BY <1>1 DEF Separate
    <2> QED
      BY <2>1 DEF MemoryInv, HeadersIntact
  <1>3. ASSUME NEW p \in DOMAIN owned \ {PtrOf(h)}, NEW a \in Span(p) PROVE mem'[a] = mem[a]
    <2>1. HeaderOf(p) \in DOMAIN hdr /\ a \in Payload(HeaderOf(p)) /\ HeaderOf(p) # h
      BY <1>1 DEF OwnedInPayload
    <2>2. a \in Arena /\ a \notin Payload(h)
      BY <1>1, <2>1 DEF Separate
    <2> QED
      BY <2>2
  <1> QED
    BY <1>2, <1>3 DEF HeadersIntact

(* realloc copies, after which the client holds res and no longer ptr. *)
LEMMA CopiedBytes ==
  ASSUME MemoryInv, ReallocCopy, MoveContent
  PROVE  /\ DOMAIN mem' = Arena /\ HeadersIntact'
         /\ res \notin DOMAIN owned /\ ptr \in DOMAIN owned
         /\ \A p \in DOMAIN owned : \A a \in Span(p) : mem'[a] = mem[a]
         /\ \A i \in 0..owned[ptr] - 1 : mem'[res + i] = mem[ptr + i]
         /\ res \in Nat /\ req \in Requests /\ owned[ptr] < req /\ owned[ptr] \in Nat
         /\ HeaderOf(res) \in DOMAIN hdr /\ PtrOf(HeaderOf(res)) = res
         /\ req <= hdr[HeaderOf(res)].size
  <1> DEFINE h == HeaderOf(res)
             n == hdr[HeaderOf(ptr)].size
  <1>1. /\ h \in DOMAIN hdr /\ req <= hdr[h].size /\ res \notin DOMAIN owned
        /\ ptr \in DOMAIN owned /\ res \in Nat /\ ptr \in Nat /\ req \in Nat
        /\ n < req /\ req \in Requests /\ UNCHANGED hdr
    BY DEF MemoryInv, HeapInv, CallState, CallBytes, Answering, ReallocCopy, TypeOK
  <1>2. List /\ Separate /\ OwnedInPayload
    BY InvSeparate, InvOwned DEF MemoryInv
  <1>3. /\ HeaderOf(ptr) \in DOMAIN hdr /\ owned[ptr] \in Nat /\ owned[ptr] <= n
        /\ n \in Nat /\ hdr[h].size \in Nat
    BY <1>1, <1>2, Ordered DEF MemoryInv, HeapInv, OwnedBacked, OwnedInPayload
  <1>4. PtrOf(h) = res /\ Payload(h) = res..(res + hdr[h].size - 1)
    <2>1. PtrOf(h) = res
      BY <1>1, HeapAssumption DEF HeaderOf, PtrOf
    <2> QED
      BY <1>1, <1>2, <2>1, Ordered DEF Payload
  <1>5. /\ DOMAIN mem = Arena
        /\ mem' = [a \in Arena |-> IF a \in res..(res + n - 1) THEN mem[ptr + a - res] ELSE mem[a]]
    BY DEF MemoryInv, MoveContent, Copied
  <1> HIDE DEF h, n
  <1>6. \A a \in Arena : a \notin Payload(h) => mem'[a] = mem[a]
    BY <1>1, <1>3, <1>4, <1>5
  <1>7. HeadersIntact' /\ \A p \in DOMAIN owned : \A a \in Span(p) : mem'[a] = mem[a]
    BY <1>1, <1>4, <1>5, <1>6, StoreInside
  <1>8. ASSUME NEW i \in 0..owned[ptr] - 1 PROVE mem'[res + i] = mem[ptr + i]
    <2>1. res + i \in Payload(h) /\ res + i \in res..(res + n - 1) /\ ptr + (res + i) - res = ptr + i
      <3>1. PICK room : room = hdr[h].size
        OBVIOUS
      <3>2. room \in Nat /\ n <= room /\ Payload(h) = res..(res + room - 1)
        BY <1>1, <1>3, <1>4, <3>1
      <3>3. i \in Nat /\ i <= n - 1
        BY <1>3
      <3> QED
        BY <1>1, <1>3, <3>2, <3>3
    <2>2. res + i \in Arena
      BY <1>1, <1>2, <2>1 DEF Separate
    <2> QED
      BY <1>5, <2>1, <2>2
  <1>9. owned[ptr] < req
    BY <1>1, <1>3
  <1> QED
    BY <1>1, <1>3, <1>4, <1>5, <1>7, <1>8, <1>9 DEF h

(***************************************************************************)
(* Steps                                                                   *)
(***************************************************************************)

(* Every step of the heap with its bytes is one of the heap. *)
LEMMA HeapStep == MemoryInv /\ [MNext]_mvars => HeapInv'
  <1>1. [MNext]_mvars => [Next]_vars
    BY DEF MNext, MStep, Silent, ClientWrite, Next, Step, mvars, vars
  <1> QED
    BY <1>1, InvStep DEF MemoryInv

(* A step that leaves the bytes that are held leaves the abstract blocks. *)
LEMMA HeldUnchanged ==
  ASSUME MemoryInv, UNCHANGED owned, HeldKept
  PROVE  Held' = Held
  <1>1. OwnedInPayload
    BY InvOwned DEF MemoryInv
  <1>2. ASSUME NEW p \in DOMAIN owned, NEW i \in 0..owned[p] - 1 PROVE mem'[p + i] = mem[p + i]
    <2>1. p + i \in Span(p)
      BY <1>1 DEF OwnedInPayload, Span
    <2> QED
      BY <2>1 DEF HeldKept
  <1> QED
    BY <1>2 DEF Held

(* malloc takes a free block of the list. *)
LEMMA TakeMemory ==
  ASSUME MemoryInv, HeapInv', pc \in {"malloc", "scan"},
         NEW h \in DOMAIN hdr, ~hdr[h].taken,
         \/ req <= hdr[h].size
         \/ h = MEM_ADDR_START /\ InitialIsAlone /\ EnoughRoom(req),
         TakeHeader(h, req), StoreTaken(h),
         pc' = "malloced", res' = PtrOf(h), UNCHANGED <<req, ptr, owned>>
  PROVE  MemoryInv' /\ HeldKept
  <1>1. List /\ OwnedInPayload /\ req \in Nat
    BY InvSeparate, InvOwned DEF MemoryInv, HeapInv, TypeOK
  <1>2. /\ DOMAIN hdr \subseteq DOMAIN hdr' /\ hdr'[h].size = req
        /\ \A a \in DOMAIN hdr \ {h} : hdr'[a].size = hdr[a].size
    BY <1>1, TakeKeepsList
  <1>3. ASSUME NEW p \in DOMAIN owned PROVE HeaderOf(p) \in DOMAIN hdr \ {h}
    BY <1>1 DEF OwnedInPayload
  <1>4. PtrOf(h) \notin DOMAIN owned
    <2>1. HeaderOf(PtrOf(h)) = h
      BY <1>1, Pointers, ListFacts
    <2> QED
      BY <1>3, <2>1
  <1>5. /\ DOMAIN mem' = Arena /\ HeadersIntact' /\ HeldKept
        /\ \A a \in PtrOf(h)..(PtrOf(h) + req - 1) : mem'[a] = "zero"
    BY <1>2, <1>4, TakenBytes
  <1>6. CallBytes'
    <2>1. Answering /\ req \in Requests /\ (ptr # NULL => hdr[HeaderOf(ptr)].size < req)
      BY DEF MemoryInv, CallBytes, Answering
    <2>2. ptr # NULL => hdr'[HeaderOf(ptr)].size = hdr[HeaderOf(ptr)].size
      BY <1>2, <1>3 DEF MemoryInv, HeapInv, CallState
    <2>3. res' = PtrOf(h) /\ req' = req /\ ptr' = ptr
      OBVIOUS
    <2> QED
      BY <1>5, <2>1, <2>2, <2>3 DEF CallBytes, HeaderOf
  <1> QED
    BY <1>5, <1>6 DEF MemoryInv

LEMMA AppendMemory ==
  ASSUME MemoryInv, HeapInv', ScanAppend, StoreTaken(EndOf(cur))
  PROVE  MemoryInv' /\ HeldKept
  <1> DEFINE new == EndOf(cur)
  <1>1. List /\ OwnedInPayload /\ req \in Nat /\ cur \in DOMAIN hdr /\ pc = "scan"
        /\ AppendHeader(cur, req) /\ RoomBehind(cur, req) /\ hdr[cur].next = NULL
        /\ pc' = "malloced" /\ res' = PtrOf(new) /\ UNCHANGED <<req, ptr, owned>>
    BY InvSeparate, InvOwned DEF MemoryInv, HeapInv, TypeOK, CallState, ScanAppend
  <1>2. /\ new \in Nat /\ new \notin DOMAIN hdr /\ DOMAIN hdr' = DOMAIN hdr \cup {new}
        /\ hdr'[new].size = req /\ \A a \in DOMAIN hdr : hdr'[a].size = hdr[a].size
    BY <1>1, AppendKeepsList
  <1> HIDE DEF new
  <1>3. \A p \in DOMAIN owned : HeaderOf(p) \in DOMAIN hdr
    BY <1>1 DEF OwnedInPayload
  <1>4. PtrOf(new) \notin DOMAIN owned
    <2>1. HeaderOf(PtrOf(new)) = new
      BY <1>2, Pointers
    <2> QED
      BY <1>2, <1>3, <2>1
  <1>5. StoreTaken(new)
    BY DEF new
  <1>6. /\ DOMAIN mem' = Arena /\ HeadersIntact' /\ HeldKept
        /\ \A a \in PtrOf(new)..(PtrOf(new) + req - 1) : mem'[a] = "zero"
    BY <1>1, <1>2, <1>4, <1>5, TakenBytes
  <1>7. CallBytes'
    <2>1. req \in Requests /\ (ptr # NULL => hdr[HeaderOf(ptr)].size < req)
      BY <1>1 DEF MemoryInv, CallBytes, Answering
    <2>2. ptr # NULL => hdr'[HeaderOf(ptr)].size = hdr[HeaderOf(ptr)].size
      BY <1>1, <1>2, <1>3 DEF MemoryInv, HeapInv, CallState
    <2> QED
      BY <1>1, <1>6, <2>1, <2>2 DEF CallBytes, HeaderOf
  <1> QED
    BY <1>6, <1>7 DEF MemoryInv

(* The steps of free that poison. *)
LEMMA FreeMemory ==
  ASSUME MemoryInv, HeapInv',
         \/ FreeMark /\ Poison(HeaderOf(ptr))
         \/ MergeNext /\ Poison(cur)
         \/ MergePrev /\ Poison(hdr[cur].prev)
  PROVE  MemoryInv' /\ HeldKept
  <1>1. List
    BY InvSeparate DEF MemoryInv
  <1>2. /\ UNCHANGED owned /\ pc' \in {"mergeNext", "mergePrev"}
        /\ cur' \in DOMAIN hdr' /\ ~hdr'[cur'].taken
        /\ Poison(cur')
    BY DEF FreeMark, MergeNext, MergePrev, MemoryInv, HeapInv, CallState, Poison, Filled
  <1>3. DOMAIN hdr' \subseteq DOMAIN hdr
    <2>1. CASE FreeMark
      BY <2>1 DEF FreeMark
    <2>2. CASE MergeNext
      <3>1. cur \in DOMAIN hdr /\ hdr[cur].next # NULL /\ hdr' = Absorb(cur, hdr[cur].next)
        BY <2>2 DEF MergeNext, IsFree, MemoryInv, HeapInv, CallState
      <3>2. hdr[cur].next \in DOMAIN hdr
        BY <3>1 DEF MemoryInv, HeapInv, WellLinked, LinksAgree
      <3> QED
        BY <1>1, <3>1, <3>2, AbsorbKeepsList
    <2>3. CASE MergePrev
      <3>1. cur \in DOMAIN hdr /\ hdr[cur].prev # NULL /\ hdr' = Absorb(hdr[cur].prev, cur)
        BY <2>3 DEF MergePrev, IsFree, MemoryInv, HeapInv, CallState
      <3>2. hdr[cur].prev \in DOMAIN hdr /\ hdr[hdr[cur].prev].next = cur
        BY <3>1 DEF MemoryInv, HeapInv, WellLinked, LinksAgree
      <3> QED
        BY <1>1, <3>1, <3>2, AbsorbKeepsList
    <2> QED
      BY <2>1, <2>2, <2>3
  <1>4. PICK h \in DOMAIN hdr' : h = cur'
    BY <1>2
  <1>5. DOMAIN mem' = Arena /\ HeadersIntact' /\ HeldKept
    BY <1>2, <1>3, <1>4, PoisonBytes
  <1>6. CallBytes'
    BY <1>2 DEF CallBytes, Answering
  <1> QED
    BY <1>5, <1>6 DEF MemoryInv

(***************************************************************************)
(* What a step is to the client                                            *)
(***************************************************************************)

(* A pointer the client holds is an address of the arena. *)
LEMMA PointerInArena ==
  ASSUME List, NEW p, HeaderOf(p) \in DOMAIN hdr, p = PtrOf(HeaderOf(p))
  PROVE  p \in MEM_ADDR_START..MEM_END
         /\ \A n \in Nat : n <= hdr[HeaderOf(p)].size => p + n <= MEM_END
  <1> DEFINE h == HeaderOf(p)
  <1>1. /\ h \in Nat /\ EndOf(h) \in Nat /\ hdr[h].size \in Nat /\ p = h + HEADER_SIZE
        /\ EndOf(h) = p + hdr[h].size /\ MEM_ADDR_START <= h /\ EndOf(h) <= MEM_END
    BY Ordered
  <1>2. MEM_ADDR_START \in Nat /\ MEM_END \in Nat /\ HEADER_SIZE \in Nat
    BY HeapAssumption DEF MEM_END
  <1> HIDE DEF h
  <1>3. p \in MEM_ADDR_START..MEM_END /\ \A n \in Nat : n <= hdr[h].size => p + n <= MEM_END
    BY <1>1, <1>2
  <1> QED
    BY <1>3 DEF h

(* The block that malloc returns touches none that is held. *)
LEMMA NewIsUnused ==
  ASSUME HeapInv, NEW q \in Nat, NEW n \in Nat, HeaderOf(q) \in DOMAIN hdr, q = PtrOf(HeaderOf(q)),
         n <= hdr[HeaderOf(q)].size, q \notin DOMAIN owned
  PROVE  q \in MEM_ADDR_START..MEM_END /\ Blocks!Unused(q, n, DOMAIN Held)
  <1>1. List /\ Separate /\ OwnedInPayload
    BY InvSeparate, InvOwned
  <1>2. q \in MEM_ADDR_START..MEM_END /\ q + n <= MEM_END
    BY <1>1, PointerInArena
  <1>3. MEM_ADDR_START <= q
    BY <1>2, HeapAssumption DEF MEM_END
  <1>4. \A a \in q..(q + n - 1) : a \in Payload(HeaderOf(q))
    BY <1>1, Ordered DEF Payload
  <1>5. ASSUME NEW p \in DOMAIN owned, NEW i \in 0..owned[p] - 1
        PROVE  p + i \notin q..(q + n - 1)
    <2>1. p + i \in Span(p)
      BY <1>1 DEF OwnedInPayload, Span
    <2>2. HeaderOf(p) # HeaderOf(q) /\ HeaderOf(p) \in DOMAIN hdr /\ p + i \in Payload(HeaderOf(p))
      BY <1>1, <2>1 DEF OwnedInPayload
    <2> QED
      BY <1>1, <1>4, <2>2 DEF Separate
  <1>6. DOMAIN Held = DOMAIN owned /\ \A p \in DOMAIN owned : DOMAIN Held[p] = 0..owned[p] - 1
    BY DEF Held
  <1> QED
    BY <1>2, <1>3, <1>5, <1>6 DEF Blocks!Unused

(* malloc returns a block. *)
LEMMA ReturnRefines ==
  ASSUME MemoryInv, MallocReturn, UNCHANGED mem, res # NULL
  PROVE  Blocks!Next
  <1>1. /\ HeaderOf(res) \in DOMAIN hdr /\ req <= hdr[HeaderOf(res)].size /\ res \notin DOMAIN owned
        /\ res \in Nat /\ req \in Nat /\ req \in Requests
        /\ \A a \in res..(res + req - 1) : mem[a] = "zero"
        /\ owned' = With(owned, res, req)
    BY DEF MemoryInv, HeapInv, CallState, CallBytes, Answering, TypeOK, MallocReturn
  <1>2. res = PtrOf(HeaderOf(res))
    BY <1>1, HeapAssumption DEF HeaderOf, PtrOf
  <1>3. res \in MEM_ADDR_START..MEM_END /\ Blocks!Unused(res, req, DOMAIN Held)
    BY <1>1, <1>2, NewIsUnused DEF MemoryInv
  <1>4. Held' = [q \in DOMAIN Held \cup {res} |->
                   IF q = res THEN [i \in 0..req - 1 |-> "zero"] ELSE Held[q]]
    <2>1. /\ DOMAIN owned' = DOMAIN owned \cup {res} /\ owned'[res] = req
          /\ \A q \in DOMAIN owned : owned'[q] = owned[q]
      BY <1>1 DEF With
    <2>2. \A i \in 0..req - 1 : mem[res + i] = "zero"
      BY <1>1
    <2>3. Held' = [q \in DOMAIN owned' |-> [i \in 0..owned'[q] - 1 |-> mem[q + i]]]
      BY DEF Held
    <2>4. DOMAIN Held = DOMAIN owned
          /\ \A q \in DOMAIN owned : Held[q] = [i \in 0..owned[q] - 1 |-> mem[q + i]]
      BY DEF Held
    <2>5. [i \in 0..req - 1 |-> mem[res + i]] = [i \in 0..req - 1 |-> "zero"]
      BY <2>2
    <2>6. ASSUME NEW q \in DOMAIN owned'
          PROVE  [i \in 0..owned'[q] - 1 |-> mem[q + i]]
                   = IF q = res THEN [i \in 0..req - 1 |-> "zero"] ELSE Held[q]
      <3>1. CASE q = res
        BY <2>1, <2>5, <3>1
      <3>2. CASE q # res
        <4>1. q \in DOMAIN owned /\ owned'[q] = owned[q]
          BY <2>1, <3>2
        <4> QED
          BY <2>4, <3>2, <4>1
      <3> QED
        BY <3>1, <3>2
    <2> QED
      BY <2>1, <2>3, <2>4, <2>6
  <1>5. Blocks!Malloc(res, req)
    BY <1>3, <1>4 DEF Blocks!Malloc
  <1> QED
    BY <1>1, <1>3, <1>5 DEF Blocks!Next

(* realloc has moved a block. *)
LEMMA CopyRefines ==
  ASSUME MemoryInv, ReallocCopy, MoveContent
  PROVE  Blocks!Next
  <1>1. /\ res \notin DOMAIN owned /\ ptr \in DOMAIN owned
        /\ \A p \in DOMAIN owned : \A a \in Span(p) : mem'[a] = mem[a]
        /\ \A i \in 0..owned[ptr] - 1 : mem'[res + i] = mem[ptr + i]
        /\ res \in Nat /\ req \in Requests /\ owned[ptr] < req /\ owned[ptr] \in Nat
        /\ HeaderOf(res) \in DOMAIN hdr /\ PtrOf(HeaderOf(res)) = res
        /\ req <= hdr[HeaderOf(res)].size
    BY CopiedBytes
  <1>2. OwnedInPayload /\ req \in Nat /\ owned' = With(Without(owned, ptr), res, req)
    BY InvOwned, HeapAssumption, <1>1 DEF MemoryInv, ReallocCopy
  <1>3. res \in MEM_ADDR_START..MEM_END /\ Blocks!Unused(res, req, DOMAIN Held)
    BY <1>1, <1>2, NewIsUnused DEF MemoryInv
  <1>4. /\ DOMAIN owned' = (DOMAIN owned \ {ptr}) \cup {res} /\ owned'[res] = req
        /\ \A q \in DOMAIN owned \ {ptr} : owned'[q] = owned[q]
    BY <1>1, <1>2 DEF With, Without
  <1>5. /\ DOMAIN Held' = (DOMAIN Held \ {ptr}) \cup {res}
        /\ Held'[res] = [i \in 0..req - 1 |-> mem'[res + i]]
        /\ Held[ptr] = [i \in 0..owned[ptr] - 1 |-> mem[ptr + i]]
        /\ ptr \in DOMAIN Held
    BY <1>1, <1>4 DEF Held
  <1>6. \A i \in DOMAIN Held[ptr] \cap 0..req - 1 : Held'[res][i] = Held[ptr][i]
    BY <1>1, <1>5
  <1>7. ASSUME NEW q \in DOMAIN Held \ {ptr} PROVE Held'[q] = Held[q]
    <2>1. q \in DOMAIN owned \ {ptr} /\ owned'[q] = owned[q] /\ q \in DOMAIN owned'
      BY <1>4, <1>7 DEF Held
    <2>2. \A i \in 0..owned[q] - 1 : q + i \in Span(q)
      BY <1>2, <2>1 DEF OwnedInPayload, Span
    <2>3. \A i \in 0..owned[q] - 1 : mem'[q + i] = mem[q + i]
      BY <1>1, <2>1, <2>2
    <2> QED
      BY <2>1, <2>3 DEF Held
  <1>8. Blocks!Realloc(ptr, res, req)
    BY <1>3, <1>5, <1>6, <1>7 DEF Blocks!Realloc, Blocks!Others
  <1> QED
    BY <1>1, <1>3, <1>5, <1>8 DEF Blocks!Next

(* A call begins: free gives a block back, realloc may keep it in place.   *)
LEMMA CallMemory ==
  ASSUME MemoryInv, HeapInv', Call, UNCHANGED mem
  PROVE  MemoryInv' /\ [Blocks!Next]_Held
  <1>1. List /\ OwnedInPayload
    BY InvSeparate, InvOwned DEF MemoryInv
  <1>2. UNCHANGED hdr /\ pc = "idle" /\ ptr = NULL
    BY DEF Call, CallMalloc, CallCalloc, CallFree, ReallocZero, ReallocInPlace, ReallocMove,
       MemoryInv, HeapInv, CallState
  <1>3. DOMAIN mem' = Arena /\ HeadersIntact'
    BY <1>2 DEF MemoryInv, HeadersIntact
  <1>4. ASSUME NEW n \in Requests, CallMalloc(n) PROVE CallBytes' /\ Held' = Held
    BY <1>2, <1>4 DEF CallMalloc, CallBytes, Answering, Held
  <1>5. ASSUME NEW p \in DOMAIN owned, CallFree(p) PROVE CallBytes' /\ Blocks!Next
    <2>1. pc' = "free" /\ owned' = Without(owned, p)
      BY <1>5 DEF CallFree
    <2>2. CallBytes'
      BY <2>1 DEF CallBytes, Answering
    <2>3. DOMAIN owned' = DOMAIN owned \ {p} /\ \A q \in DOMAIN owned' : owned'[q] = owned[q]
      BY <2>1 DEF Without
    <2>4. Held' = [q \in DOMAIN Held \ {p} |-> Held[q]] /\ p \in DOMAIN Held
      BY <2>3 DEF Held
    <2> QED
      BY <2>2, <2>4 DEF Blocks!Next, Blocks!Free
  <1>6. ASSUME NEW p \in DOMAIN owned, NEW n \in Requests, ReallocInPlace(p, n)
        PROVE  CallBytes' /\ Blocks!Next
    <2>1. pc' = "idle" /\ owned' = [owned EXCEPT ![p] = n]
      BY <1>2, <1>6 DEF ReallocInPlace
    <2>2. CallBytes'
      BY <2>1 DEF CallBytes, Answering
    <2>3. p \in MEM_ADDR_START..MEM_END
      BY <1>1, PointerInArena DEF OwnedInPayload
    <2>4. /\ DOMAIN owned' = DOMAIN owned /\ owned'[p] = n
          /\ \A q \in DOMAIN owned \ {p} : owned'[q] = owned[q]
      BY <2>1 DEF MemoryInv, HeapInv, TypeOK
    <2>5. /\ DOMAIN Held' = DOMAIN Held /\ p \in DOMAIN Held
          /\ Held'[p] = [i \in 0..n - 1 |-> mem[p + i]]
          /\ Held[p] = [i \in 0..owned[p] - 1 |-> mem[p + i]]
          /\ \A q \in DOMAIN Held \ {p} : Held'[q] = Held[q]
      BY <2>4 DEF Held
    <2>6. Blocks!Realloc(p, p, n)
      BY <2>5 DEF Blocks!Realloc, Blocks!Others
    <2> QED
      BY <2>2, <2>3, <2>5, <2>6 DEF Blocks!Next
  <1>7. ASSUME NEW p \in DOMAIN owned, NEW n \in Requests, ReallocMove(p, n)
        PROVE  CallBytes' /\ Held' = Held
    BY <1>2, <1>7 DEF ReallocMove, CallBytes, Answering, Held, HeaderOf
  <1> QED
    BY <1>3, <1>4, <1>5, <1>6, <1>7 DEF Call, CallCalloc, ReallocZero, MemoryInv

(* The client writes. *)
LEMMA WriteMemory ==
  ASSUME MemoryInv, HeapInv', NEW p \in DOMAIN owned, NEW s \in Stamps, ClientWrite(p, s)
  PROVE  MemoryInv' /\ Blocks!Next
  <1>1. OwnedInPayload /\ DOMAIN mem = Arena
    BY InvOwned DEF MemoryInv
  <1>2. /\ UNCHANGED <<hdr, pc, cur, req, ptr, res, owned>> /\ pc = "idle"
        /\ mem' = [a \in Arena |-> IF a \in Span(p) THEN s ELSE mem[a]]
    BY <1>1 DEF ClientWrite, vars, Filled, Span
  <1>3. /\ HeaderOf(p) \in DOMAIN hdr /\ PtrOf(HeaderOf(p)) = p
        /\ \A a \in Arena : a \notin Payload(HeaderOf(p)) => mem'[a] = mem[a]
    BY <1>1, <1>2 DEF OwnedInPayload
  <1>4. HeadersIntact' /\ \A q \in DOMAIN owned \ {p} : \A a \in Span(q) : mem'[a] = mem[a]
    BY <1>2, <1>3, StoreInside
  <1>5. MemoryInv'
    BY <1>2, <1>4 DEF MemoryInv, CallBytes, Answering
  <1>6. /\ DOMAIN Held' = DOMAIN Held /\ p \in DOMAIN Held
        /\ DOMAIN Held'[p] = DOMAIN Held[p]
    BY <1>2 DEF Held
  <1>7. ASSUME NEW q \in DOMAIN Held \ {p} PROVE Held'[q] = Held[q]
    <2>1. q \in DOMAIN owned \ {p}
      BY <1>7 DEF Held
    <2>2. \A i \in 0..owned[q] - 1 : q + i \in Span(q)
      BY <1>1, <2>1 DEF OwnedInPayload, Span
    <2>3. \A i \in 0..owned[q] - 1 : mem'[q + i] = mem[q + i]
      BY <1>4, <2>1, <2>2
    <2> QED
      BY <1>2, <2>1, <2>3 DEF Held
  <1>8. Blocks!Write(p)
    BY <1>6, <1>7 DEF Blocks!Write, Blocks!Others
  <1> QED
    BY <1>5, <1>6, <1>8 DEF Blocks!Next

(* The steps of a call that store nothing but fields of headers. *)
LEMMA SilentMemory ==
  ASSUME MemoryInv, HeapInv', Silent, UNCHANGED mem
  PROVE  MemoryInv' /\ [Blocks!Next]_Held
  <1>1. UNCHANGED hdr
    BY DEF Silent, MallocRefuse, StartScan, ScanNext, ScanFail, MallocReturn, ReallocFail,
       MergeNextDone, MergePrevDone
  <1>2. CallBytes'
    BY <1>1 DEF MemoryInv, CallBytes, Answering, HeaderOf, Silent, MallocRefuse, StartScan, ScanNext,
       ScanFail, MallocReturn, ReallocFail, MergeNextDone, MergePrevDone
  <1>3. MemoryInv'
    BY <1>1, <1>2 DEF MemoryInv, HeadersIntact
  <1>4. UNCHANGED owned => Held' = Held
    BY DEF Held
  <1>5. UNCHANGED owned \/ (MallocReturn /\ res # NULL)
    BY DEF Silent, MallocRefuse, StartScan, ScanNext, ScanFail, MallocReturn, ReallocFail,
       MergeNextDone, MergePrevDone
  <1> QED
    BY <1>3, <1>4, <1>5, ReturnRefines

LEMMA CopyMemory ==
  ASSUME MemoryInv, HeapInv', ReallocCopy, MoveContent
  PROVE  MemoryInv' /\ Blocks!Next
  <1>1. DOMAIN mem' = Arena /\ HeadersIntact'
    BY CopiedBytes
  <1>2. CallBytes'
    BY DEF ReallocCopy, CallBytes, Answering
  <1> QED
    BY <1>1, <1>2, CopyRefines DEF MemoryInv

(***************************************************************************)
(* Theorems                                                                *)
(***************************************************************************)
LEMMA MemoryInit == MInit => MemoryInv /\ Blocks!Init
  <1> SUFFICES ASSUME MInit PROVE MemoryInv /\ Blocks!Init
    OBVIOUS
  <1>1. HeapInv /\ pc = "idle" /\ DOMAIN owned = {} /\ DOMAIN hdr = {MEM_ADDR_START}
    BY InvInit DEF MInit, Init
  <1>2. DOMAIN mem = Arena /\ (\A a \in Arena : a \in HeaderBytes(MEM_ADDR_START) => mem[a] = "header")
    BY DEF MInit, Arena
  <1>3. HeadersIntact
    <2>1. Separate
      BY <1>1, InvSeparate
    <2> QED
      BY <1>1, <1>2, <2>1 DEF HeadersIntact, Separate
  <1>4. CallBytes
    BY <1>1 DEF CallBytes, Answering
  <1>5. Held = [p \in {} |-> "zero"]
    BY <1>1 DEF Held
  <1> QED
    BY <1>1, <1>2, <1>3, <1>4, <1>5 DEF MemoryInv, Blocks!Init

LEMMA MemoryStep == MemoryInv /\ [MNext]_mvars => MemoryInv' /\ [Blocks!Next]_Held
  <1> SUFFICES ASSUME MemoryInv, [MNext]_mvars PROVE MemoryInv' /\ [Blocks!Next]_Held
    OBVIOUS
  <1>1. HeapInv'
    BY HeapStep
  <1>2. CASE Call /\ UNCHANGED mem
    BY <1>1, <1>2, CallMemory
  <1>3. ASSUME NEW p \in DOMAIN owned, NEW s \in Stamps, ClientWrite(p, s)
        PROVE  MemoryInv' /\ Blocks!Next
    BY <1>1, <1>3, WriteMemory
  <1>4. CASE Silent /\ UNCHANGED mem
    BY <1>1, <1>4, SilentMemory
  <1>5. CASE TakeInitialHeader /\ StoreTaken(MEM_ADDR_START)
    <2>1. MemoryInv' /\ HeldKept
      <3>1. MEM_ADDR_START \in DOMAIN hdr
        BY DEF MemoryInv, HeapInv, WellLinked, LinksAgree
      <3> QED
        BY <1>1, <1>5, <3>1, TakeMemory DEF TakeInitialHeader, InitialIsAlone
    <2> QED
      BY <1>5, <2>1, HeldUnchanged DEF TakeInitialHeader
  <1>6. CASE ScanTake /\ StoreTaken(cur)
    <2>1. MemoryInv' /\ HeldKept
      <3>1. cur \in DOMAIN hdr /\ ~hdr[cur].taken /\ req <= hdr[cur].size
        BY <1>6 DEF ScanTake, Fits, MemoryInv, HeapInv, CallState
      <3> QED
        BY <1>1, <1>6, <3>1, TakeMemory DEF ScanTake
    <2> QED
      BY <1>6, <2>1, HeldUnchanged DEF ScanTake
  <1>7. CASE ScanAppend /\ StoreTaken(EndOf(cur))
    BY <1>1, <1>7, AppendMemory, HeldUnchanged DEF ScanAppend
  <1>8. CASE ReallocCopy /\ MoveContent
    BY <1>1, <1>8, CopyMemory
  <1>9. CASE \/ FreeMark /\ Poison(HeaderOf(ptr))
             \/ MergeNext /\ Poison(cur)
             \/ MergePrev /\ Poison(hdr[cur].prev)
    <2>1. MemoryInv' /\ HeldKept
      BY <1>1, <1>9, FreeMemory
    <2>2. UNCHANGED owned
      BY <1>9 DEF FreeMark, MergeNext, MergePrev
    <2> QED
      BY <2>1, <2>2, HeldUnchanged
  <1>10. CASE UNCHANGED mvars
    <2>1. UNCHANGED <<hdr, pc, req, ptr, res, owned, mem>>
      BY <1>10 DEF mvars
    <2> QED
      BY <1>1, <2>1 DEF MemoryInv, HeadersIntact, CallBytes, Answering, HeaderOf, Held
  <1> QED
    BY <1>2, <1>3, <1>4, <1>5, <1>6, <1>7, <1>8, <1>9, <1>10 DEF MNext, MStep

(* Headers and payloads keep apart, byte for byte, in every reachable      *)
(* state.                                                                  *)
THEOREM MemoryInvariance == MSpec => []MemoryInv
  <1>1. MInit => MemoryInv
    BY MemoryInit
  <1>2. MemoryInv /\ [MNext]_mvars => MemoryInv'
    BY MemoryStep
  <1> QED
    BY <1>1, <1>2, PTL DEF MSpec

(* No memset or memcpy of heap.c, and no write of a client inside what it  *)
(* holds, changes a byte of a header.                                      *)
THEOREM HeadersStayIntact == MSpec => []HeadersIntact
  <1>1. MemoryInv => HeadersIntact
    BY DEF MemoryInv
  <1> QED
    BY <1>1, MemoryInvariance, PTL

(* The heap with its bytes implements the allocator: each step of malloc,  *)
(* calloc, realloc and free is one of the abstract calls or changes        *)
(* nothing the client can see.                                             *)
THEOREM Implementation == MSpec => IsAllocator
  <1>1. MInit => Blocks!Init
    BY MemoryInit
  <1>2. MemoryInv /\ [MNext]_mvars => [Blocks!Next]_Held
    BY MemoryStep
  <1> QED
    BY <1>1, <1>2, MemoryInvariance, PTL DEF MSpec, IsAllocator, Blocks!Spec
=============================================================================
