--------------------------- MODULE NodePartsProofs ---------------------------
(***************************************************************************)
(* Theorems about the Node.js components around the invocation loop:       *)
(* NodeHttpParam, for any request and any calls of the handler, and        *)
(* NodeEnvironment, for any requests, handlers and environments.           *)
(***************************************************************************)
EXTENDS NodeHttpParam, NodeEnvironment, SequenceTheorems,
        WellFoundedInduction, TLAPS

-----------------------------------------------------------------------------
(* The first value of a header that is not empty.                          *)

\* A set of natural numbers that is not empty has a least element.
LEMMA LeastElement ==
  ASSUME NEW S \in SUBSET Nat, S # {}
  PROVE  \E n \in S : \A k \in S : n <= k
<1>1. PICK n \in S : \A k \in S : ~(<<k, n>> \in OpToRel(<, Nat))
  BY NatLessThanWellFounded, WFMin, Zenon
<1>2. \A k \in S : ~(k < n)
  BY <1>1 DEF OpToRel
<1> QED
  BY <1>2

\* m is where the values of a header that is no array begin to count.
IsFirstFilled(s, m) ==
  /\ m \in 1 .. Len(s)
  /\ \A i \in 1 .. Len(s) : i < m => s[i] = Empty
  /\ s[m] = Empty => m = Len(s)

\* FirstFilled is that index.
LEMMA FirstFilledIsFirst ==
  ASSUME NEW T, NEW s \in Seq(T), s # <<>>
  PROVE  IsFirstFilled(s, FirstFilled(s))
<1> DEFINE filled == {i \in DOMAIN s : s[i] # Empty}
<1>1. CASE filled = {}
  BY <1>1 DEF FirstFilled, IsFirstFilled
<1>2. CASE filled # {}
  <2>0. filled \in SUBSET Nat
    OBVIOUS
  <2>1. \E i \in filled : \A j \in filled : i <= j
    BY <1>2, <2>0, LeastElement
  <2>2. FirstFilled(s) = CHOOSE i \in filled : \A j \in filled : i <= j
    BY <1>2 DEF FirstFilled
  <2>3. FirstFilled(s) \in filled /\ \A j \in filled : FirstFilled(s) <= j
    BY <2>1, <2>2
  <2> QED
    BY <2>3 DEF IsFirstFilled
<1> QED
  BY <1>1, <1>2

\* There is only one such index.
LEMMA FirstFilledUnique ==
  ASSUME NEW T, NEW s \in Seq(T), s # <<>>, NEW m, IsFirstFilled(s, m)
  PROVE  FirstFilled(s) = m
BY FirstFilledIsFirst DEF IsFirstFilled

\* What one more value does to it: if there were but empty values it is that
\* of the new one, and otherwise it stays.
LEMMA FirstFilledAppend ==
  ASSUME NEW T, NEW s \in Seq(T), NEW v \in T
  PROVE  FirstFilled(Append(s, v)) =
           IF s = <<>> \/ s[FirstFilled(s)] = Empty THEN Len(s) + 1 ELSE FirstFilled(s)
<1> DEFINE t == Append(s, v)
<1>1. t \in Seq(T) /\ t # <<>> /\ Len(t) = Len(s) + 1 /\ t[Len(s) + 1] = v
  <2>1. t \in Seq(T) /\ Len(t) = Len(s) + 1 /\ t[Len(s) + 1] = v
    OBVIOUS
  <2> QED
    BY <2>1
<1>2. \A i \in 1 .. Len(s) : t[i] = s[i]
  OBVIOUS
<1>3. CASE s = <<>>
  <2>1. Len(s) = 0
    BY <1>3
  <2>2. IsFirstFilled(t, 1)
    BY <1>1, <2>1 DEF IsFirstFilled
  <2>3. FirstFilled(t) = 1
    BY <1>1, <2>2, FirstFilledUnique
  <2> QED
    BY <1>3, <2>1, <2>3
<1>4. CASE s # <<>>
  <2>1. IsFirstFilled(s, FirstFilled(s))
    BY <1>4, FirstFilledIsFirst
  <2>2. CASE s[FirstFilled(s)] = Empty
    <3>1. IsFirstFilled(t, Len(s) + 1)
      BY <1>1, <1>2, <2>1, <2>2 DEF IsFirstFilled
    <3> QED
      BY <1>1, <2>2, <3>1, FirstFilledUnique
  <2>3. CASE s[FirstFilled(s)] # Empty
    <3>1. IsFirstFilled(t, FirstFilled(s))
      BY <1>1, <1>2, <2>1, <2>3 DEF IsFirstFilled
    <3> QED
      BY <1>1, <1>4, <2>3, <3>1, FirstFilledUnique
  <2> QED
    BY <2>2, <2>3
<1> QED
  BY <1>3, <1>4

\* Sequences of the same length with the same elements are the same.
LEMMA SameElements ==
  ASSUME NEW T, NEW s \in Seq(T), NEW t \in Seq(T), Len(s) = Len(t),
         \A i \in 1 .. Len(s) : s[i] = t[i]
  PROVE  s = t
<1>1. s = [i \in 1 .. Len(s) |-> s[i]] /\ t = [i \in 1 .. Len(t) |-> t[i]]
  OBVIOUS
<1>2. [i \in 1 .. Len(s) |-> s[i]] = [i \in 1 .. Len(t) |-> t[i]]
  OBVIOUS
<1> QED
  BY <1>1, <1>2

LEMMA AppendFills == ASSUME NEW T, NEW s \in Seq(T), NEW x \in T PROVE Append(s, x) # <<>>
<1>1. Len(Append(s, x)) = Len(s) + 1 /\ Len(s) \in Nat
  OBVIOUS
<1>2. Len(<<>>) = 0
  OBVIOUS
<1> QED
  BY <1>1, <1>2

LEMMA Appended ==
  ASSUME NEW T, NEW s \in Seq(T), NEW x \in T
  PROVE  /\ Len(s) \in Nat /\ DOMAIN s = 1 .. Len(s)
         /\ DOMAIN Append(s, x) = 1 .. Len(s) + 1
         /\ Append(s, x)[Len(s) + 1] = x
         /\ \A k \in 1 .. Len(s) : Append(s, x)[k] = s[k]
OBVIOUS

\* The last element of a sequence is the part of it that begins there.
LEMMA LastAlone ==
  ASSUME NEW T, NEW s \in Seq(T), s # <<>>
  PROVE  SubSeq(s, Len(s), Len(s)) = <<s[Len(s)]>>
<1> DEFINE n == Len(s)
<1>1. n \in 1 .. n
  BY EmptySeq
<1>2. SubSeq(s, n, n) \in Seq(T) /\ Len(SubSeq(s, n, n)) = 1 /\ SubSeq(s, n, n)[1] = s[n]
  BY <1>1
<1>3. s[n] \in T
  BY <1>1, ElementOfSeq
<1>4. <<s[n]>> \in Seq(T) /\ Len(<<s[n]>>) = 1 /\ <<s[n]>>[1] = s[n]
  BY <1>3
<1>5. ASSUME NEW a \in Seq(T), NEW b \in Seq(T), Len(a) = 1, Len(b) = 1, a[1] = b[1]
      PROVE  a = b
  <2>1. \A i \in 1 .. Len(a) : a[i] = b[i]
    BY <1>5
  <2> QED
    BY <1>5, <2>1, SameElements
<1>6. SubSeq(s, n, n) = <<s[n]>>
  BY <1>2, <1>4, <1>5, Zenon
<1> QED
  BY <1>6

\* The part of a sequence that begins at m, which is not empty, and what it is
\* once an element is appended.
LEMMA SuffixAppend ==
  ASSUME NEW T, NEW s \in Seq(T), NEW v \in T, NEW m \in 1 .. Len(s)
  PROVE  /\ SubSeq(s, m, Len(s))[1] = s[m]
         /\ Append(s, v)[m] = s[m]
         /\ Len(Append(s, v)) = Len(s) + 1
         /\ SubSeq(Append(s, v), m, Len(s) + 1) = Append(SubSeq(s, m, Len(s)), v)
OBVIOUS

\* If h has what is to be kept of some values of a header, then it has what is
\* to be kept of one more after putHeader.
LEMMA PutHeaderKeeps ==
  ASSUME NEW h, NEW name, NEW T, NEW all \in Seq(T), NEW v \in T,
         name \in DOMAIN h <=> all # <<>>,
         all # <<>> => h[name] = KeptOf(name, all)
  PROVE  PutHeader(h, name, v)[name] = KeptOf(name, Append(all, v))
<1> DEFINE put == PutHeader(h, name, v)
           m == FirstFilled(all)
           n == FirstFilled(Append(all, v))
<1>1. n = IF all = <<>> \/ all[m] = Empty THEN Len(all) + 1 ELSE m
  BY FirstFilledAppend
<1>2. all # <<>> => IsFirstFilled(all, m)
  BY FirstFilledIsFirst
<1>4. CASE name \in Arrays
  BY <1>4, HttpAssumption DEF PutHeader, Put, Exists, KeptOf
<1>5. CASE name \notin Arrays /\ (all = <<>> \/ all[m] = Empty)
  <2>1. ~Exists(h, name)
    <3>1. CASE all = <<>>
      BY <3>1, <1>5 DEF Exists
    <3>2. CASE all # <<>>
      <4>1. m = Len(all) /\ all[m] = Empty /\ m \in 1 .. Len(all)
        BY <1>2, <1>5, <3>2 DEF IsFirstFilled
      <4>2. SubSeq(all, m, Len(all)) = <<Empty>>
        BY <4>1, LastAlone
      <4> QED
        BY <4>1, <4>2, <1>5, <3>2 DEF Exists, KeptOf
    <3> QED
      BY <3>1, <3>2
  <2>2. put[name] = <<v>>
    BY <2>1 DEF PutHeader, Put
  <2>3. n = Len(all) + 1 /\ Append(all, v)[n] = v /\ Len(Append(all, v)) = n
    BY <1>1, <1>5
  <2>4. SubSeq(Append(all, v), n, Len(Append(all, v))) = <<v>>
    <3>1. Append(all, v) \in Seq(T) /\ Append(all, v) # <<>>
      BY AppendProperties
    <3>2. SubSeq(Append(all, v), Len(Append(all, v)), Len(Append(all, v)))
            = <<Append(all, v)[Len(Append(all, v))]>>
      BY <3>1, LastAlone
    <3> HIDE DEF n
    <3> QED
      BY <2>3, <3>2
  <2> QED
    BY <1>5, <2>2, <2>3, <2>4 DEF KeptOf
<1>6. CASE name \notin Arrays /\ all # <<>> /\ all[m] # Empty
  <2>1. m \in 1 .. Len(all) /\ n = m
    BY <1>1, <1>2, <1>6 DEF IsFirstFilled
  <2>2. /\ Append(all, v)[m] = all[m]
        /\ Len(Append(all, v)) = Len(all) + 1
        /\ SubSeq(Append(all, v), m, Len(all) + 1) = Append(SubSeq(all, m, Len(all)), v)
    BY <2>1, SuffixAppend
  <2>4. SubSeq(all, m, Len(all))[1] = all[m]
    BY <2>1, SuffixAppend
  <2>3. h[name] = <<all[m]>> \/ h[name] = SubSeq(all, m, Len(all))
    BY <1>6 DEF KeptOf
  <2>5. h[name] # <<Empty>>
    <3> HIDE DEF m
    <3>1. <<all[m]>>[1] = all[m] /\ <<Empty>>[1] = Empty
      OBVIOUS
    <3> QED
      BY <2>3, <2>4, <3>1, <1>6, Zenon
  <2>6. Exists(h, name)
    BY <2>5, <1>6 DEF Exists
  <2> QED
    BY <2>1, <2>2, <2>6, <1>6 DEF PutHeader, Put, KeptOf
<1> QED
  BY <1>4, <1>5, <1>6

-----------------------------------------------------------------------------
(* The request (parseRequestHeader of httpparam.js).                       *)

\* The loop is at next, and the request has been left as it was.
CursorInv ==
  /\ httpParams \in HttpParams
  /\ next \in 1 .. Len(Pairs(httpParams)) + 1
  /\ ready => next = Len(Pairs(httpParams)) + 1

\* The pairs met so far are those in front of the loop, in order.
MetInv ==
  /\ seen \in [HeaderNames -> Seq(Nat)]
  /\ \A i \in 1 .. next - 1 :
       \E k \in DOMAIN seen[Pairs(httpParams)[i][1].lower] :
         seen[Pairs(httpParams)[i][1].lower][k] = i
  /\ \A name \in HeaderNames :
       /\ \A k \in DOMAIN seen[name] :
            seen[name][k] \in 1 .. next - 1 /\ Pairs(httpParams)[seen[name][k]][1].lower = name
       /\ \A k, l \in DOMAIN seen[name] : k < l => seen[name][k] < seen[name][l]

\* The message has what is to be kept of them.
KeptInv ==
  /\ message = [headers |-> message.headers, queries |-> message.queries]
  /\ DOMAIN message.headers = {name \in HeaderNames : seen[name] # <<>>}
  /\ \A name \in DOMAIN message.headers :
       message.headers[name] = KeptOf(name, ValuesOf(name))

RequestInv == CursorInv /\ MetInv /\ KeptInv

\* The pairs of a request are a sequence of names with strings.
LEMMA PairsType ==
  ASSUME NEW json \in HttpParams
  PROVE  /\ Len(Pairs(json)) \in Nat /\ DOMAIN Pairs(json) = 1 .. Len(Pairs(json))
         /\ \A i \in DOMAIN Pairs(json) :
              Pairs(json)[i][1].lower \in HeaderNames /\ Pairs(json)[i][2] \in STRING
BY HttpAssumption DEF Pairs

\* What Append does, element by element.
LEMMA AppendElements ==
  ASSUME NEW T, NEW s \in Seq(T), NEW p \in T
  PROVE  /\ Append(s, p) \in Seq(T)
         /\ Len(s) \in Nat /\ DOMAIN s = 1 .. Len(s)
         /\ Len(Append(s, p)) = Len(s) + 1
         /\ DOMAIN Append(s, p) = 1 .. Len(s) + 1
         /\ Append(s, p)[Len(s) + 1] = p
         /\ \A k \in 1 .. Len(s) : Append(s, p)[k] = s[k]
OBVIOUS

\* Append as a function on a longer interval.
LEMMA AppendIsFunction ==
  ASSUME NEW T, NEW s \in Seq(T), NEW p \in T
  PROVE  [k \in 1 .. Len(s) + 1 |-> IF k = Len(s) + 1 THEN p ELSE s[k]] = Append(s, p)
<1> DEFINE f == [k \in 1 .. Len(s) + 1 |-> IF k = Len(s) + 1 THEN p ELSE s[k]]
<1>1. f \in Seq(T) /\ Len(f) = Len(s) + 1
  <2>1. Len(s) \in Nat /\ \A k \in 1 .. Len(s) : s[k] \in T
    OBVIOUS
  <2> QED
    BY <2>1
<1>2. \A k \in 1 .. Len(f) : f[k] = Append(s, p)[k]
  BY <1>1, AppendElements
<1> HIDE DEF f
<1>3. f = Append(s, p)
  BY <1>1, <1>2, AppendElements, SeqEqual
<1> QED
  BY <1>3 DEF f

\* The values met of a header are strings.
LEMMA ValuesOfType ==
  ASSUME CursorInv, MetInv, NEW name \in HeaderNames
  PROVE  /\ ValuesOf(name) \in Seq(STRING)
         /\ Len(ValuesOf(name)) = Len(seen[name])
         /\ ValuesOf(name) = <<>> <=> seen[name] = <<>>
<1> DEFINE n == Len(seen[name])
           e(k) == Pairs(httpParams)[seen[name][k]][2]
<1>1. seen[name] \in Seq(Nat) /\ DOMAIN seen[name] = 1 .. n /\ n \in Nat
  BY DEF MetInv
<1>2. \A k \in 1 .. n : e(k) \in STRING
  BY <1>1, PairsType DEF MetInv, CursorInv
<1>3. ValuesOf(name) = [k \in 1 .. n |-> e(k)]
  BY <1>1 DEF ValuesOf
<1> HIDE DEF e, n
<1>4. [k \in 1 .. n |-> e(k)] \in Seq(STRING) /\ Len([k \in 1 .. n |-> e(k)]) = n
  BY <1>1, <1>2
<1>5. ValuesOf(name) \in Seq(STRING) /\ Len(ValuesOf(name)) = n
  BY <1>3, <1>4
<1> QED
  BY <1>1, <1>5, EmptySeq DEF n

\* The step of the loop that puts a value.
LEMMA PutNextRequest == RequestInv /\ PutNext => RequestInv'
<1> SUFFICES ASSUME RequestInv, PutNext PROVE RequestInv'
  OBVIOUS
<1> DEFINE P == Pairs(httpParams)
           name == P[next][1].lower
           v == P[next][2]
           s == seen[name]
<1>0. CursorInv /\ MetInv /\ KeptInv
  BY DEF RequestInv
<1>1. /\ next \in DOMAIN P
      /\ message' = [message EXCEPT !.headers = PutHeader(@, name, v)]
      /\ seen' = [seen EXCEPT ![name] = Append(@, next)]
      /\ next' = next + 1 /\ ready' = ready /\ httpParams' = httpParams
  BY DEF PutNext
<1>2. /\ httpParams \in HttpParams /\ name \in HeaderNames /\ v \in STRING
      /\ Len(P) \in Nat /\ DOMAIN P = 1 .. Len(P) /\ next \in 1 .. Len(P)
  BY <1>0, <1>1, PairsType DEF CursorInv
<1>3. P' = P
  BY <1>1
<1>4. CursorInv'
  BY <1>0, <1>1, <1>2 DEF CursorInv
<1>5. /\ seen \in [HeaderNames -> Seq(Nat)] /\ s \in Seq(Nat) /\ next \in Nat
      /\ seen' \in [HeaderNames -> Seq(Nat)]
      /\ seen'[name] = Append(s, next)
      /\ \A other \in HeaderNames \ {name} : seen'[other] = seen[other]
  BY <1>0, <1>1, <1>2 DEF MetInv
<1>6. /\ Len(s) \in Nat /\ DOMAIN s = 1 .. Len(s)
      /\ DOMAIN seen'[name] = 1 .. Len(s) + 1
      /\ seen'[name][Len(s) + 1] = next
      /\ \A k \in 1 .. Len(s) : seen'[name][k] = s[k]
  <2>1. s \in Seq(Nat) /\ next \in Nat
    BY <1>5
  <2> HIDE DEF s
  <2>2. /\ Len(s) \in Nat /\ DOMAIN s = 1 .. Len(s)
        /\ DOMAIN Append(s, next) = 1 .. Len(s) + 1
        /\ Append(s, next)[Len(s) + 1] = next
        /\ \A k \in 1 .. Len(s) : Append(s, next)[k] = s[k]
    BY <2>1, Appended
  <2> QED
    BY <1>5, <2>2
<1>7. MetInv'
  <2> HIDE DEF P, s, name
  <2>1. ASSUME NEW i \in 1 .. next
        PROVE  \E k \in DOMAIN seen'[P[i][1].lower] : seen'[P[i][1].lower][k] = i
    <3> DEFINE n == P[i][1].lower
    <3> SUFFICES \E k \in DOMAIN seen'[n] : seen'[n][k] = i
      OBVIOUS
    <3>1. n \in HeaderNames
      BY <1>2, PairsType DEF P
    <3>2. CASE i = next
      BY <1>2, <1>6, <3>2 DEF name
    <3>3. CASE i # next
      <4>1. i \in 1 .. next - 1
        BY <1>2, <3>3
      <4>2. PICK k \in DOMAIN seen[n] : seen[n][k] = i
        BY <1>0, <4>1 DEF MetInv, P
      <4> HIDE DEF n
      <4>3. CASE n = name
        BY <4>2, <4>3, <1>6 DEF s
      <4>4. CASE n # name
        BY <3>1, <4>2, <4>4, <1>5
      <4> QED
        BY <4>3, <4>4
    <3> QED
      BY <3>2, <3>3
  <2>2. ASSUME NEW n \in HeaderNames
        PROVE  /\ \A k \in DOMAIN seen'[n] : seen'[n][k] \in 1 .. next /\ P[seen'[n][k]][1].lower = n
               /\ \A k, l \in DOMAIN seen'[n] : k < l => seen'[n][k] < seen'[n][l]
    <3>1. CASE n = name
      <4>1. \A k \in 1 .. Len(s) : s[k] \in 1 .. next - 1 /\ P[s[k]][1].lower = name
        BY <1>0, <1>2, <1>6 DEF MetInv, P, s
      <4>2. \A k, l \in 1 .. Len(s) : k < l => s[k] < s[l]
        BY <1>0, <1>2, <1>6 DEF MetInv, s
      <4>3. P[next][1].lower = name
        BY DEF name
      <4>4. \A k \in 1 .. Len(s) + 1 :
              seen'[name][k] \in 1 .. next /\ P[seen'[name][k]][1].lower = name
        BY <1>2, <1>6, <4>1, <4>3
      <4>5. \A k, l \in 1 .. Len(s) + 1 : k < l => seen'[name][k] < seen'[name][l]
        <5>1. ASSUME NEW k \in 1 .. Len(s) + 1, NEW l \in 1 .. Len(s) + 1, k < l
              PROVE  seen'[name][k] < seen'[name][l]
          <6>1. k \in 1 .. Len(s) /\ (l \in 1 .. Len(s) \/ l = Len(s) + 1)
            BY <1>6, <5>1
          <6>2. CASE l = Len(s) + 1
            <7>1. seen'[name][k] = s[k] /\ seen'[name][l] = next /\ s[k] \in 1 .. next - 1
              BY <1>6, <4>1, <6>1, <6>2
            <7> QED
              BY <1>2, <7>1
          <6>3. CASE l \in 1 .. Len(s)
            <7>1. seen'[name][k] = s[k] /\ seen'[name][l] = s[l] /\ s[k] < s[l]
              BY <1>6, <4>2, <5>1, <6>1, <6>3
            <7> QED
              BY <7>1
          <6> QED
            BY <6>1, <6>2, <6>3
        <5> QED
          BY <5>1
      <4> QED
        BY <1>6, <3>1, <4>4, <4>5
    <3>2. CASE n # name
      <4>1. seen'[n] = seen[n]
        BY <1>5, <3>2
      <4>2. \A k \in DOMAIN seen[n] : seen[n][k] \in 1 .. next - 1
        BY <1>0 DEF MetInv
      <4>3. \A k \in DOMAIN seen[n] : seen[n][k] \in 1 .. next
        BY <1>2, <4>2
      <4> QED
        BY <1>0, <4>1, <4>3 DEF MetInv, P
    <3> QED
      BY <3>1, <3>2
  <2> QED
    <3>1. 1 .. next' - 1 = 1 .. next
      BY <1>1, <1>2
    <3>2. Pairs(httpParams') = P
      BY <1>1 DEF P
    <3> QED
      BY <1>5, <2>1, <2>2, <3>1, <3>2 DEF MetInv
<1>8. KeptInv'
  <2> DEFINE h == message.headers
             all == ValuesOf(name)
  <2>1. /\ message'.headers = PutHeader(h, name, v)
        /\ message' = [headers |-> message'.headers, queries |-> message'.queries]
    BY <1>0, <1>1 DEF KeptInv
  <2>2. all \in Seq(STRING) /\ Len(all) = Len(s) /\ (all = <<>> <=> s = <<>>)
    BY <1>0, <1>2, ValuesOfType
  <2>3. (name \in DOMAIN h <=> all # <<>>) /\ (all # <<>> => h[name] = KeptOf(name, all))
    BY <1>0, <1>2, <2>2 DEF KeptInv
  <2>4. /\ DOMAIN message'.headers = DOMAIN h \cup {name}
        /\ message'.headers[name] = KeptOf(name, Append(all, v))
        /\ \A other \in DOMAIN h : other # name => message'.headers[other] = h[other]
    <3> HIDE DEF all, h, v, name
    <3>1. ASSUME NEW g, NEW n, NEW w, NEW a \in Seq(STRING), w \in STRING, 
             n \in DOMAIN g <=> a # <<>>, a # <<>> => g[n] = KeptOf(n, a)
          PROVE PutHeader(g, n, w)[n] = KeptOf(n, Append(a, w))
      BY <3>1, PutHeaderKeeps
    <3>2. PutHeader(h, name, v)[name] = KeptOf(name, Append(all, v))
      BY <1>2, <2>2, <2>3, <3>1
    <3>3. DOMAIN PutHeader(h, name, v) = DOMAIN h \cup {name}
      BY DEF PutHeader, Put, Exists
    <3>4. \A other \in DOMAIN h : other # name => PutHeader(h, name, v)[other] = h[other]
      BY DEF PutHeader, Put, Exists
    <3> QED
      BY <2>1, <3>2, <3>3, <3>4
  <2> HIDE DEF name, v, s
  <2>5. [k \in DOMAIN seen'[name] |-> Pairs(httpParams')[seen'[name][k]][2]] = Append(all, v)
    <3>0. Pairs(httpParams') = P
      BY <1>1
    <3>1. [k \in DOMAIN seen'[name] |-> Pairs(httpParams')[seen'[name][k]][2]] = [k \in 1 .. Len(s) + 1 |-> P[seen'[name][k]][2]]
      BY <1>6, <3>0
    <3>2. all = [k \in 1 .. Len(s) |-> P[s[k]][2]]
      BY <1>6 DEF ValuesOf, s
    <3> HIDE DEF P, all
    <3>3. [k \in 1 .. Len(s) + 1 |-> P[seen'[name][k]][2]] = [k \in 1 .. Len(s) + 1 |-> IF k = Len(s) + 1 THEN P[next][2] ELSE all[k]]
      BY <1>6, <3>2
    <3>4. P[next][2] = v
      BY DEF v
    <3>5. [k \in 1 .. Len(s) + 1 |-> IF k = Len(s) + 1 THEN P[next][2] ELSE all[k]] = Append(all, v)
      <4>1. [k \in 1 .. Len(all) + 1 |-> IF k = Len(all) + 1 THEN v ELSE all[k]] = Append(all, v)
        BY <1>2, <2>2, AppendIsFunction, Zenon
      <4> QED
        BY <2>2, <3>4, <4>1, Zenon
    <3> QED
      BY <3>1, <3>3, <3>5
  <2>a. \A n \in HeaderNames : n = name => ValuesOf(n)' = Append(all, v)
    BY <2>5 DEF ValuesOf
  <2>6. \A other \in HeaderNames \ {name} : ValuesOf(other)' = ValuesOf(other)
    BY <1>3, <1>5 DEF ValuesOf
  <2>7. seen'[name] # <<>>
    BY <1>5, AppendFills
  <2>8. DOMAIN message'.headers = {n \in HeaderNames : seen'[n] # <<>>}
    BY <1>0, <1>2, <1>5, <2>4, <2>7 DEF KeptInv
  <2>9. \A n \in DOMAIN message'.headers : message'.headers[n] = KeptOf(n, ValuesOf(n)')
    <3>1. \A n \in DOMAIN h : n # name => message'.headers[n] = KeptOf(n, ValuesOf(n))
      BY <1>0, <2>4 DEF KeptInv
    <3>2. \A n \in DOMAIN message'.headers : n \in HeaderNames /\ (n = name \/ n \in DOMAIN h)
      BY <2>4, <2>8
    <3> HIDE DEF h, all
    <3> QED
      BY <2>4, <2>a, <2>6, <3>1, <3>2
  <2> QED
    BY <2>1, <2>8, <2>9 DEF KeptInv, KeptOf, FirstFilled
<1> QED
  BY <1>4, <1>7, <1>8 DEF RequestInv

\* The other steps of the request, and those of the handler, leave all that is
\* said of its headers.
LEMMA OtherStepsRequest ==
  ASSUME RequestInv, [HttpNext]_httpVars, ~PutNext
  PROVE  RequestInv'
<1>1. /\ UNCHANGED <<httpParams, next, seen>> /\ message'.headers = message.headers
      /\ message' = [headers |-> message'.headers, queries |-> message'.queries]
      /\ ready' => ready \/ next \notin DOMAIN Pairs(httpParams)
  <2>1. CASE FinishMessage
    BY <2>1 DEF FinishMessage, RequestInv, KeptInv
  <2>2. CASE UNCHANGED requestVars
    BY <2>2 DEF requestVars, RequestInv, KeptInv
  <2>3. [HttpNext]_httpVars /\ ~PutNext => FinishMessage \/ UNCHANGED requestVars
    BY DEF HttpNext, httpVars, SetHeader, DeleteHeader, SetStatusCode, SendResponse, HttpRest, Says
  <2> QED
    BY <2>1, <2>2, <2>3
<1>2. Pairs(httpParams') = Pairs(httpParams)
  BY <1>1
<1>3. Len(Pairs(httpParams)) \in Nat /\ DOMAIN Pairs(httpParams) = 1 .. Len(Pairs(httpParams))
  BY PairsType DEF RequestInv, CursorInv
<1>4. CursorInv'
  BY <1>1, <1>2, <1>3 DEF RequestInv, CursorInv
<1>5. MetInv'
  BY <1>1, <1>2 DEF RequestInv, MetInv
<1>6. \A name : ValuesOf(name)' = ValuesOf(name)
  BY <1>1, <1>2 DEF ValuesOf
<1>7. KeptInv'
  BY <1>1, <1>6 DEF RequestInv, KeptInv, KeptOf, FirstFilled
<1> QED
  BY <1>4, <1>5, <1>7 DEF RequestInv

\* For any request of an HTTP function, also with the same header in several
\* spellings and with empty values: the handler sees all values of each array
\* header, the first one of a unique header, and those of the others in order.
THEOREM RequestIsKept == HttpSpec => []RequestHeadersKept
<1>1. HttpInit => RequestInv
  <2> SUFFICES ASSUME HttpInit PROVE RequestInv
    OBVIOUS
  <2>1. CursorInv
    BY PairsType DEF HttpInit, CursorInv
  <2>2. \A name \in HeaderNames : seen[name] = <<>> /\ DOMAIN seen[name] = {}
    BY DEF HttpInit
  <2>3. MetInv
    BY <2>2, EmptySeq DEF HttpInit, MetInv
  <2>4. KeptInv
    BY <2>2 DEF HttpInit, KeptInv
  <2> QED
    BY <2>1, <2>3, <2>4 DEF RequestInv
<1>2. RequestInv /\ [HttpNext]_httpVars => RequestInv'
  BY PutNextRequest, OtherStepsRequest
<1>3. RequestInv => RequestHeadersKept
  <2> SUFFICES ASSUME RequestInv, ready PROVE RequestHeadersKept
    BY DEF RequestHeadersKept
  <2>1. Len(Pairs(httpParams)) \in Nat /\ DOMAIN Pairs(httpParams) = 1 .. Len(Pairs(httpParams))
    BY PairsType DEF RequestInv, CursorInv
  <2>2. 1 .. next - 1 = DOMAIN Pairs(httpParams)
    BY <2>1 DEF RequestInv, CursorInv
  <2>3. SeenInOrder
    BY <2>2 DEF RequestInv, MetInv, SeenInOrder
  <2> QED
    BY <2>3 DEF RequestInv, KeptInv, RequestHeadersKept
<1> QED
  BY <1>1, <1>2, <1>3, PTL DEF HttpSpec

-----------------------------------------------------------------------------
(* The response (Response of httpparam.js).                                *)

ResponseInv ==
  /\ response = [statusCode |-> response.statusCode, headers |-> response.headers,
                 headersMap |-> response.headersMap, sent |-> response.sent]
  /\ response.sent \in BOOLEAN
  /\ said \in Seq([key : HeaderKeys, value : Seq(STRING)])
  /\ dumped = IF response.sent THEN <<dumpHTTPParams>> ELSE <<>>
  /\ \A key \in HeaderKeys :
       /\ key \in DOMAIN response.headersMap <=>
            \E i \in DOMAIN said : LastWord(key, i) /\ said[i].value # <<>>
       /\ key \in DOMAIN response.headers <=>
            \E i \in DOMAIN said : LastText(key, i) /\ said[i].value # <<>>
       /\ \A i \in DOMAIN said : said[i].value # <<>> =>
            /\ LastWord(key, i) => response.headersMap[key] = Strings(said[i].value)
            /\ LastText(key, i) => response.headers[key] = said[i].value[1]

\* What one more call does to the history: it has the last word on its header,
\* and settles its string unless it sets an array.
LEMMA SaysLast ==
  ASSUME ResponseInv, NEW key \in HeaderKeys, NEW value \in Seq(STRING), Says(key, value)
  PROVE  /\ said' \in Seq([key : HeaderKeys, value : Seq(STRING)])
         /\ Len(said) \in Nat /\ DOMAIN said = 1 .. Len(said) /\ DOMAIN said' = 1 .. Len(said) + 1
         /\ said'[Len(said) + 1].value = value
         /\ \A i \in 1 .. Len(said) : said'[i] = said[i]
         /\ \A k \in HeaderKeys, i \in 1 .. Len(said) + 1 :
              LastWord(k, i)' <=> IF k = key THEN i = Len(said) + 1
                                  ELSE i <= Len(said) /\ LastWord(k, i)
         /\ \A k \in HeaderKeys, i \in 1 .. Len(said) + 1 :
              LastText(k, i)' <=> IF k = key /\ ~IsArray(value) THEN i = Len(said) + 1
                                  ELSE i <= Len(said) /\ LastText(k, i)
<1> DEFINE n == Len(said)
           c == [key |-> key, value |-> value]
<1>1. /\ said' = Append(said, c) /\ said \in Seq([key : HeaderKeys, value : Seq(STRING)])
      /\ c \in [key : HeaderKeys, value : Seq(STRING)]
  BY DEF Says, ResponseInv
<1>2. /\ said' \in Seq([key : HeaderKeys, value : Seq(STRING)])
      /\ n \in Nat /\ DOMAIN said = 1 .. n /\ DOMAIN said' = 1 .. n + 1
      /\ said'[n + 1] = c
      /\ \A i \in 1 .. n : said'[i] = said[i]
  BY <1>1, AppendElements
<1>3. c.key = key /\ c.value = value
  OBVIOUS
<1> HIDE DEF n, c
<1>4. \A k \in HeaderKeys, i \in 1 .. n + 1 :
        LastWord(k, i)' <=> IF k = key THEN i = n + 1 ELSE i <= n /\ LastWord(k, i)
  <2> SUFFICES ASSUME NEW k \in HeaderKeys, NEW i \in 1 .. n + 1
               PROVE  LastWord(k, i)' <=> IF k = key THEN i = n + 1 ELSE i <= n /\ LastWord(k, i)
    OBVIOUS
  <2>0. LastWord(k, i)' <=> said'[i].key = k /\ \A j \in 1 .. n + 1 : j > i => said'[j].key # k
    BY <1>2 DEF LastWord
  <2>1. LastWord(k, i) <=> said[i].key = k /\ \A j \in 1 .. n : j > i => said[j].key # k
    BY <1>2 DEF LastWord
  <2>2. CASE k = key
    BY <1>2, <1>3, <2>0, <2>2
  <2>3. CASE k # key /\ i = n + 1
    BY <1>2, <1>3, <2>0, <2>3
  <2>4. CASE k # key /\ i # n + 1
    BY <1>2, <1>3, <2>0, <2>1, <2>4
  <2> QED
    BY <2>2, <2>3, <2>4
<1>5. \A k \in HeaderKeys, i \in 1 .. n + 1 :
        LastText(k, i)' <=> IF k = key /\ ~IsArray(value) THEN i = n + 1
                            ELSE i <= n /\ LastText(k, i)
  <2> SUFFICES ASSUME NEW k \in HeaderKeys, NEW i \in 1 .. n + 1
               PROVE  LastText(k, i)' <=> IF k = key /\ ~IsArray(value) THEN i = n + 1
                                          ELSE i <= n /\ LastText(k, i)
    OBVIOUS
  <2>0. LastText(k, i)' <=> /\ said'[i].key = k /\ ~IsArray(said'[i].value)
                            /\ \A j \in 1 .. n + 1 : j > i /\ said'[j].key = k => IsArray(said'[j].value)
    BY <1>2 DEF LastText
  <2>1. LastText(k, i) <=> /\ said[i].key = k /\ ~IsArray(said[i].value)
                           /\ \A j \in 1 .. n : j > i /\ said[j].key = k => IsArray(said[j].value)
    BY <1>2 DEF LastText
  <2>2. CASE k = key /\ ~IsArray(value)
    BY <1>2, <1>3, <2>0, <2>2
  <2>3. CASE ~(k = key /\ ~IsArray(value)) /\ i = n + 1
    BY <1>2, <1>3, <2>0, <2>3
  <2>4. CASE ~(k = key /\ ~IsArray(value)) /\ i # n + 1
    <3>1. i \in 1 .. n /\ said'[i] = said[i]
      BY <1>2, <2>4
    <3>2. \A j \in 1 .. n + 1 : j = n + 1 \/ (j \in 1 .. n /\ said'[j] = said[j])
      BY <1>2
    <3>3. said'[n + 1].key = k => IsArray(said'[n + 1].value)
      BY <1>2, <1>3, <2>4
    <3>4. (\A j \in 1 .. n + 1 : j > i /\ said'[j].key = k => IsArray(said'[j].value))
            <=> \A j \in 1 .. n : j > i /\ said[j].key = k => IsArray(said[j].value)
      <4>1. 1 .. n \subseteq 1 .. n + 1 /\ \A j \in 1 .. n : said'[j] = said[j]
        BY <1>2
      <4> QED
        BY <3>2, <3>3, <4>1, Zenon
    <3>5. i <= n
      BY <1>2, <3>1
    <3> QED
      BY <2>0, <2>1, <2>4, <3>1, <3>4, <3>5
  <2> QED
    BY <2>2, <2>3, <2>4
<1> QED
  BY <1>2, <1>3, <1>4, <1>5 DEF n

\* Calls about headers keep the invariant.
LEMMA HeaderCallsKeepResponse ==
  ASSUME ResponseInv, NEW key \in HeaderKeys, NEW value \in Seq(STRING), Says(key, value),
         \/ value # <<>> /\ SetHeader(key, value)
         \/ value = <<>> /\ DeleteHeader(key)
  PROVE  ResponseInv'
<1> DEFINE n == Len(said)
           map == response.headersMap
           text == response.headers
<1>0. PICK c, b : response = [statusCode |-> c, headers |-> text, headersMap |-> map, sent |-> b]
  BY DEF ResponseInv
<1> HIDE DEF n, map, text
<1>1. /\ ~response.sent /\ dumped' = dumped
      /\ response' = [statusCode |-> c, headers |-> response'.headers,
                      headersMap |-> response'.headersMap, sent |-> b]
      /\ response'.headersMap = IF value # <<>> THEN Put(map, key, Strings(value)) ELSE Drop(map, key)
      /\ response'.headers = IF IsArray(value) THEN text
                             ELSE IF value # <<>> THEN Put(text, key, value[1]) ELSE Drop(text, key)
  <2>1. CASE value # <<>>
    <3>1. response' = [response EXCEPT !.headersMap = Put(@, key, Strings(value)),
                                       !.headers = IF IsArray(value) THEN @ ELSE Put(@, key, value[1])]
      BY <2>1 DEF SetHeader
    <3> QED
      BY <1>0, <2>1, <3>1 DEF Says
  <2>2. CASE value = <<>>
    <3>1. response' = [response EXCEPT !.headers = Drop(@, key), !.headersMap = Drop(@, key)]
      BY <2>2 DEF DeleteHeader
    <3> QED
      BY <1>0, <2>2, <3>1 DEF Says, IsArray
  <2> QED
    BY <2>1, <2>2
<1>2. /\ DOMAIN response'.headersMap = IF value = <<>> THEN DOMAIN map \ {key} ELSE DOMAIN map \cup {key}
      /\ value # <<>> => response'.headersMap[key] = Strings(value)
      /\ \A k \in DOMAIN map : k # key => response'.headersMap[k] = map[k]
  BY <1>1 DEF Put, Drop
<1>3. /\ DOMAIN response'.headers = IF value = <<>> THEN DOMAIN text \ {key}
                                    ELSE IF IsArray(value) THEN DOMAIN text
                                    ELSE DOMAIN text \cup {key}
      /\ value # <<>> /\ ~IsArray(value) => response'.headers[key] = value[1]
      /\ \A k \in DOMAIN text : k # key \/ IsArray(value) => response'.headers[k] = text[k]
  BY <1>1 DEF Put, Drop, IsArray
<1>4. /\ said' \in Seq([key : HeaderKeys, value : Seq(STRING)])
      /\ n \in Nat /\ DOMAIN said = 1 .. n /\ DOMAIN said' = 1 .. n + 1
      /\ said'[n + 1].value = value
      /\ \A i \in 1 .. n : said'[i] = said[i]
      /\ \A k \in HeaderKeys, i \in 1 .. n + 1 :
           LastWord(k, i)' <=> IF k = key THEN i = n + 1 ELSE i <= n /\ LastWord(k, i)
      /\ \A k \in HeaderKeys, i \in 1 .. n + 1 :
           LastText(k, i)' <=> IF k = key /\ ~IsArray(value) THEN i = n + 1
                               ELSE i <= n /\ LastText(k, i)
  BY SaysLast DEF n
<1>5. IsArray(value) => value # <<>>
  BY DEF IsArray
<1>6. ASSUME NEW k \in HeaderKeys
      PROVE  /\ k \in DOMAIN response'.headersMap <=>
                  \E i \in 1 .. n + 1 : LastWord(k, i)' /\ said'[i].value # <<>>
             /\ \A i \in 1 .. n + 1 : said'[i].value # <<>> /\ LastWord(k, i)' =>
                  response'.headersMap[k] = Strings(said'[i].value)
  <2>1. CASE k = key
    <3>1. \A i \in 1 .. n + 1 : LastWord(k, i)' <=> i = n + 1
      BY <1>4, <2>1
    <3>2. n + 1 \in 1 .. n + 1 /\ said'[n + 1].value = value
      BY <1>4
    <3>3. k \in DOMAIN response'.headersMap <=> value # <<>>
      BY <1>2, <2>1
    <3> QED
      BY <1>2, <2>1, <3>1, <3>2, <3>3
  <2>2. CASE k # key
    <3>1. /\ k \in DOMAIN map <=> \E i \in 1 .. n : LastWord(k, i) /\ said[i].value # <<>>
          /\ \A i \in 1 .. n : said[i].value # <<>> /\ LastWord(k, i) =>
               map[k] = Strings(said[i].value)
      BY <1>4 DEF ResponseInv, n, map, text
    <3> HIDE DEF n, map
    <3> QED
      BY <1>2, <1>4, <2>2, <3>1
  <2> QED
    BY <2>1, <2>2
<1>7. ASSUME NEW k \in HeaderKeys
      PROVE  /\ k \in DOMAIN response'.headers <=>
                  \E i \in 1 .. n + 1 : LastText(k, i)' /\ said'[i].value # <<>>
             /\ \A i \in 1 .. n + 1 : said'[i].value # <<>> /\ LastText(k, i)' =>
                  response'.headers[k] = said'[i].value[1]
  <2>1. CASE k = key /\ ~IsArray(value)
    <3>1. \A i \in 1 .. n + 1 : LastText(k, i)' <=> i = n + 1
      BY <1>4, <2>1
    <3>2. n + 1 \in 1 .. n + 1 /\ said'[n + 1].value = value
      BY <1>4
    <3>3. k \in DOMAIN response'.headers <=> value # <<>>
      BY <1>3, <2>1
    <3> QED
      BY <1>3, <2>1, <3>1, <3>2, <3>3
  <2>2. CASE k # key \/ IsArray(value)
    <3>1. /\ k \in DOMAIN text <=> \E i \in 1 .. n : LastText(k, i) /\ said[i].value # <<>>
          /\ \A i \in 1 .. n : said[i].value # <<>> /\ LastText(k, i) =>
               text[k] = said[i].value[1]
      BY <1>4 DEF ResponseInv, n, map, text
    <3>2. k \in DOMAIN response'.headers <=> k \in DOMAIN text
      BY <1>3, <1>5, <2>2
    <3> HIDE DEF n, text
    <3> QED
      <4>1. \A i \in 1 .. n + 1 : LastText(k, i)' <=> i \in 1 .. n /\ LastText(k, i)
        BY <1>4, <2>2
      <4>2. \A i \in 1 .. n : i \in 1 .. n + 1 /\ said'[i] = said[i]
        BY <1>4
      <4>3. \A i \in 1 .. n : said[i].value # <<>> /\ LastText(k, i) =>
              response'.headers[k] = said[i].value[1]
        BY <1>3, <2>2, <3>1
      <4> QED
        BY <3>1, <3>2, <4>1, <4>2, <4>3, Zenon
  <2> QED
    BY <2>1, <2>2
<1> QED
  <2>1. /\ response' = [statusCode |-> response'.statusCode, headers |-> response'.headers,
                        headersMap |-> response'.headersMap, sent |-> response'.sent]
        /\ response'.sent = response.sent
    BY <1>0, <1>1
  <2>2. response'.sent \in BOOLEAN /\ ~response'.sent /\ dumped' = <<>>
    BY <1>1, <2>1 DEF ResponseInv
  <2> QED
    BY <1>4, <1>6, <1>7, <2>1, <2>2 DEF ResponseInv

\* Every step keeps it.
LEMMA NextResponse == ResponseInv /\ [HttpNext]_httpVars => ResponseInv'
<1> SUFFICES ASSUME ResponseInv, [HttpNext]_httpVars PROVE ResponseInv'
  OBVIOUS
<1>1. CASE UNCHANGED responseVars
  BY <1>1 DEF responseVars, ResponseInv, dumpHTTPParams, LastWord, LastText
<1>2. ASSUME NEW key \in HeaderKeys, NEW value \in HeaderValues, SetHeader(key, value)
      PROVE  ResponseInv'
  <2>1. value \in Seq(STRING)
    BY HttpAssumption
  <2>2. Says(key, value) /\ value # <<>>
    BY <1>2 DEF SetHeader
  <2> QED
    BY <1>2, <2>1, <2>2, HeaderCallsKeepResponse
<1>3. ASSUME NEW key \in HeaderKeys, DeleteHeader(key) PROVE ResponseInv'
  <2>1. <<>> \in Seq(STRING) /\ Says(key, <<>>)
    BY <1>3, EmptySeq DEF DeleteHeader
  <2> QED
    BY <1>3, <2>1, HeaderCallsKeepResponse
<1>4. ASSUME NEW code \in StatusCodes, SetStatusCode(code) PROVE ResponseInv'
  <2>1. /\ response' = [response EXCEPT !.statusCode = code]
        /\ ~response.sent /\ dumped' = dumped /\ said' = said
    BY <1>4 DEF SetStatusCode
  <2>2. PICK c, h, m, b : response = [statusCode |-> c, headers |-> h, headersMap |-> m, sent |-> b]
    BY DEF ResponseInv
  <2>3. response' = [statusCode |-> code, headers |-> h, headersMap |-> m, sent |-> b]
    BY <2>1, <2>2
  <2> QED
    BY <2>1, <2>2, <2>3 DEF ResponseInv, LastWord, LastText
<1>5. CASE SendResponse
  <2>1. /\ response' = [response EXCEPT !.sent = TRUE]
        /\ ~response.sent /\ dumped' = Append(dumped, dumpHTTPParams) /\ said' = said
    BY <1>5 DEF SendResponse
  <2>2. PICK c, h, m, b : response = [statusCode |-> c, headers |-> h, headersMap |-> m, sent |-> b]
    BY DEF ResponseInv
  <2>3. response' = [statusCode |-> c, headers |-> h, headersMap |-> m, sent |-> TRUE]
    BY <2>1, <2>2
  <2>4. dumpHTTPParams' = dumpHTTPParams
    BY <2>2, <2>3 DEF dumpHTTPParams
  <2>5. dumped' = <<dumpHTTPParams>>
    BY <2>1 DEF ResponseInv
  <2>6. dumped' = IF response'.sent THEN <<dumpHTTPParams'>> ELSE <<>>
    BY <2>3, <2>4, <2>5
  <2>7. /\ response' = [statusCode |-> response'.statusCode, headers |-> response'.headers,
                        headersMap |-> response'.headersMap, sent |-> response'.sent]
        /\ response'.headers = response.headers /\ response'.headersMap = response.headersMap
        /\ response'.sent \in BOOLEAN
    BY <2>2, <2>3
  <2> HIDE DEF dumpHTTPParams
  <2> QED
    BY <2>1, <2>6, <2>7 DEF ResponseInv, LastWord, LastText
<1> QED
  BY <1>1, <1>2, <1>3, <1>4, <1>5
  DEF HttpNext, httpVars, responseVars, PutNext, FinishMessage, HttpRest

\* For any calls of a handler: what is posted is what it said before it sent,
\* once and for all, also where arrays and strings are set over each other.
THEOREM ResponseIsCalled == HttpSpec => []ResponseAsCalled
<1>1. HttpInit => ResponseInv
  <2> SUFFICES ASSUME HttpInit PROVE ResponseInv
    OBVIOUS
  <2>1. said = <<>> /\ DOMAIN said = {} /\ dumped = <<>> /\ response = NewResponse
    BY DEF HttpInit
  <2>2. DOMAIN response.headers = {} /\ DOMAIN response.headersMap = {} /\ response.sent = FALSE
    BY <2>1 DEF NewResponse
  <2>3. response = [statusCode |-> response.statusCode, headers |-> response.headers,
                    headersMap |-> response.headersMap, sent |-> response.sent]
    BY <2>1 DEF NewResponse
  <2> QED
    BY <2>1, <2>2, <2>3, EmptySeq DEF ResponseInv
<1>2. ResponseInv /\ [HttpNext]_httpVars => ResponseInv'
  BY NextResponse
<1>3. ResponseInv => ResponseAsCalled
  <2> SUFFICES ASSUME ResponseInv PROVE ResponseAsCalled
    OBVIOUS
  <2>1. /\ Len(dumped) <= 1 /\ (dumped # <<>> <=> response.sent)
        /\ (dumped # <<>> => dumped[1] = dumpHTTPParams)
    <3>1. CASE response.sent
      <4>1. PICK d : d = dumpHTTPParams
        OBVIOUS
      <4>2. dumped = <<d>>
        BY <3>1, <4>1 DEF ResponseInv
      <4> QED
        BY <3>1, <4>1, <4>2
    <3>2. CASE ~response.sent
      <4>1. dumped = <<>>
        BY <3>2 DEF ResponseInv
      <4> QED
        BY <3>2, <4>1
    <3> QED
      BY <3>1, <3>2
  <2> QED
    BY <2>1 DEF ResponseInv, ResponseAsCalled
<1> QED
  BY <1>1, <1>2, <1>3, PTL DEF HttpSpec

-----------------------------------------------------------------------------
(* The process environment.                                                *)

Washed == washEnv(given)
Flagged == Is(given, "FC_SNAPSHOT_FLAG", "1")

\* Before the first request; waiting with a snapshot to restore; restored by a
\* request; and without a snapshot.
Early ==
  /\ stage \in {"load", "wash", "start", "ended"}
  /\ env = given \/ stage \in {"start", "ended"}
  /\ stage = "start" => env = Washed
  /\ cwd = "work" /\ restoredBy = "none"
Frozen ==
  /\ stage = "idle"
  /\ CreateFromSnapshot /\ Flagged
  /\ env = Washed /\ cwd = "root"
Restored ==
  /\ stage \in {"idle", "body", "handler"}
  /\ ~CreateFromSnapshot /\ Flagged
  /\ restoredBy \in Invocations /\ env = RestoreEnv(Washed, restoredBy)
  /\ cwd # "root"
  /\ stage = "idle" => DOMAIN answers # {}
Plain ==
  /\ stage \in {"idle", "body", "handler"}
  /\ ~CreateFromSnapshot /\ ~Flagged
  /\ env = Washed /\ cwd # "root"

\* Where the process stands and what its environment is made of.
EnvInv == Early \/ Frozen \/ Restored \/ Plain

\* The flag of the snapshot is safe from the sanitizer.
LEMMA FlagIsSafe ==
  ASSUME NEW e
  PROVE  Is(washEnv(e), "FC_SNAPSHOT_FLAG", "1") = Is(e, "FC_SNAPSHOT_FLAG", "1")
BY DEF washEnv, Only, Is, SAFE_ENV, FcNames, UnderscoreFcNames

\* So are the variables that a restore fills, and it fills those that are there.
LEMMA RestoreFills ==
  ASSUME NEW e, NEW r \in Invocations, NEW h \in HeadersOf[r],
         NEW n \in NamesOf(h) \cap DOMAIN e
  PROVE  Is(RestoreEnv(washEnv(e), r), n, r)
<1>1. h \in Headers
  BY ProcessAssumption
<1>2. n # "FC_SNAPSHOT_FLAG" /\ (n \in FcNames \cup UnderscoreFcNames => n \in SAFE_ENV)
  <2>1. CASE h = "access-key-id"
    BY <2>1 DEF NamesOf, FcNames, UnderscoreFcNames, SAFE_ENV
  <2>2. CASE h = "access-key-secret"
    BY <2>2 DEF NamesOf, FcNames, UnderscoreFcNames, SAFE_ENV
  <2>3. CASE h = "security-token"
    BY <2>3 DEF NamesOf, FcNames, UnderscoreFcNames, SAFE_ENV
  <2>4. CASE h = "instance-id"
    BY <2>4 DEF NamesOf, FcNames, UnderscoreFcNames, SAFE_ENV
  <2> QED
    BY <1>1, <2>1, <2>2, <2>3, <2>4 DEF Headers
<1>3. n \in DOMAIN washEnv(e)
  BY <1>2 DEF washEnv, Only
<1>4. n \in DOMAIN washEnv(e) \ {"FC_SNAPSHOT_FLAG"}
  BY <1>2, <1>3
<1> HIDE DEF NamesOf
<1> QED
  BY <1>4 DEF RestoreEnv, Is

\* A restore leaves no trace of the snapshot and adds no variable.
LEMMA RestoreHides ==
  ASSUME NEW e, NEW r
  PROVE  DOMAIN RestoreEnv(e, r) = DOMAIN e \ {"FC_SNAPSHOT_FLAG"}
BY DEF RestoreEnv

\* An answer makes the process wait, and is remembered.
LEMMA AnswerEnds ==
  ASSUME NEW r, NEW kind, NEW frames, NEW s, Answer(r, kind, frames, s)
  PROVE  stage' = "idle" /\ DOMAIN answers' # {}
BY DEF Answer

\* A request is answered at once, or user code runs.
LEMMA CallOutcome ==
  ASSUME NEW r, NEW f, CallFunction(r, f)
  PROVE  /\ stage' \in {"idle", "handler"}
         /\ stage' = "idle" => DOMAIN answers' # {}
BY AnswerEnds DEF CallFunction

LEMMA FindOutcome ==
  ASSUME NEW r, NEW f, FindFunction(r, f)
  PROVE  /\ stage' \in {"idle", "handler"}
         /\ stage' = "idle" => DOMAIN answers' # {}
BY AnswerEnds, CallOutcome DEF FindFunction

LEMMA LoadOutcome ==
  ASSUME NEW r, LoadFunction(r)
  PROVE  /\ stage' \in {"idle", "body", "handler"}
         /\ stage' = "idle" => DOMAIN answers' # {}
BY AnswerEnds, CallOutcome, FindOutcome DEF LoadFunction

\* Every step of the process keeps its environment.
LEMMA NextEnv == EnvInv /\ [ProcessNext]_processVars => EnvInv'
<1> SUFFICES ASSUME EnvInv, [ProcessNext]_processVars PROVE EnvInv'
  OBVIOUS
<1> USE DEF Flagged, start, user, history
<1>1. CASE Load
  BY <1>1 DEF Load, EnvInv, Early, Frozen, Restored, Plain, Washed
<1>2. CASE Wash
  BY <1>2 DEF Wash, EnvInv, Early, Frozen, Restored, Plain, Washed
<1>3. CASE Start
  BY <1>3, FlagIsSafe DEF Start, EnvInv, Early, Frozen, Restored, Plain, Washed
<1>4. CASE \E r \in Invocations : InvokeFunction(r)
  <2>1. PICK r \in Invocations : InvokeFunction(r)
    BY <1>4
  <2>2. stage = "idle" /\ stage' \in {"idle", "body", "handler"}
         /\ (stage' = "idle" => DOMAIN answers' # {})
    BY <2>1, LoadOutcome DEF InvokeFunction
  <2>3. given' = given /\ CreateFromSnapshot' = FALSE
    BY <2>1 DEF InvokeFunction
  <2>4. CASE CreateFromSnapshot
    <3>1. Frozen
      BY <2>2, <2>4 DEF EnvInv, Early, Restored, Plain
    <3>2. cwd' = "work" /\ env' = RestoreEnv(env, r) /\ restoredBy' = r
      BY <2>1, <2>4 DEF InvokeFunction
    <3> QED
      BY <2>2, <2>3, <3>1, <3>2 DEF EnvInv, Frozen, Restored, Washed
  <2>5. CASE ~CreateFromSnapshot
    <3>1. Restored \/ Plain
      BY <2>2, <2>5 DEF EnvInv, Early, Frozen
    <3>2. cwd' = cwd /\ env' = env /\ restoredBy' = restoredBy
      BY <2>1, <2>5 DEF InvokeFunction
    <3> QED
      BY <2>2, <2>3, <3>1, <3>2 DEF EnvInv, Restored, Plain, Washed
  <2> QED
    BY <2>4, <2>5
<1>5. CASE \E r \in Invocations : ChdirThrows(r)
  <2>1. PICK r \in Invocations : ChdirThrows(r)
    BY <1>5
  <2>2. stage' = "idle"
    BY <2>1, AnswerEnds DEF ChdirThrows
  <2> QED
    BY <2>1, <2>2 DEF ChdirThrows, EnvInv, Early, Frozen, Restored, Plain, Washed
<1>6. CASE \E found \in [Handlers -> 0 .. 1] : EndBody(found)
  <2>1. PICK found \in [Handlers -> 0 .. 1] : EndBody(found)
    BY <1>6
  <2>2. stage' \in {"idle", "handler"} /\ (stage' = "idle" => DOMAIN answers' # {})
    BY <2>1, FindOutcome DEF EndBody
  <2> QED
    BY <2>1, <2>2 DEF EndBody, EnvInv, Early, Frozen, Restored, Plain, Washed
<1>7. CASE \E frames \in UserFrames : BodyThrows(frames)
  <2>1. PICK frames \in UserFrames : BodyThrows(frames)
    BY <1>7
  <2>2. stage' = "idle" /\ DOMAIN answers' # {}
    BY <2>1, AnswerEnds DEF BodyThrows
  <2> QED
    BY <2>1, <2>2 DEF BodyThrows, EnvInv, Early, Frozen, Restored, Plain, Washed
<1>8. CASE EndHandler
  <2>1. stage' = "idle" /\ DOMAIN answers' # {}
    BY <1>8, AnswerEnds DEF EndHandler
  <2> QED
    BY <1>8, <2>1 DEF EndHandler, EnvInv, Early, Frozen, Restored, Plain, Washed
<1>9. CASE UserChanges
  BY <1>9 DEF UserChanges, EnvInv, Early, Frozen, Restored, Plain, Washed
<1>10. CASE UNCHANGED processVars
  BY <1>10 DEF processVars, EnvInv, Early, Frozen, Restored, Plain, Washed
<1> QED
  BY <1>1, <1>2, <1>3, <1>4, <1>5, <1>6, <1>7, <1>8, <1>9, <1>10
  DEF ProcessNext, ProcessRest

\* For any environment, requests and handlers: the snapshot survives the
\* sanitizer, and is over before user code runs.
THEOREM SnapshotRestored == ProcessSpec => []SnapshotIsRestored
<1>1. ProcessInit => EnvInv
  BY DEF ProcessInit, EnvInv, Early
<1>2. EnvInv => SnapshotIsRestored
  <2> SUFFICES ASSUME EnvInv PROVE SnapshotIsRestored
    OBVIOUS
  <2>1. stage = "idle" /\ answers = <<>> =>
          (CreateFromSnapshot /\ cwd = "root" <=> Is(given, "FC_SNAPSHOT_FLAG", "1"))
    BY DEF EnvInv, Early, Frozen, Restored, Plain, Flagged
  <2>2. ASSUME stage \in {"body", "handler"}
        PROVE  /\ ~CreateFromSnapshot /\ cwd # "root"
               /\ Is(given, "FC_SNAPSHOT_FLAG", "1") => Restored
    BY <2>2 DEF EnvInv, Early, Frozen, Restored, Plain, Flagged
  <2>3. ASSUME Restored
        PROVE  /\ restoredBy # "none" /\ "FC_SNAPSHOT_FLAG" \notin DOMAIN env
               /\ \A h \in HeadersOf[restoredBy] : \A n \in NamesOf(h) \cap DOMAIN given :
                    Is(env, n, restoredBy)
    BY <2>3, RestoreHides, RestoreFills, ProcessAssumption DEF Restored, Washed
  <2> QED
    BY <2>1, <2>2, <2>3 DEF SnapshotIsRestored
<1> QED
  BY <1>1, <1>2, NextEnv, PTL DEF ProcessSpec

-----------------------------------------------------------------------------
(* The stacks of errors.                                                   *)

Places == {"user", "node", "runtime"}
Stacks == {RuntimeFrames, <<>>} \cup UserFrames

LEMMA StackPlaces ==
  ASSUME NEW frames \in Stacks
  PROVE  frames \in Seq(Places)
<1>0. "user" \in Places /\ "node" \in Places /\ "runtime" \in Places
  BY DEF Places
<1>1. /\ <<"runtime", "runtime">> \in Seq(Places) /\ <<>> \in Seq(Places)
      /\ <<"user", "runtime">> \in Seq(Places) /\ <<"user">> \in Seq(Places)
  BY <1>0
<1>2. <<"node", "user", "node", "runtime">> \in Seq(Places)
  BY <1>0
<1>3. /\ <<"runtime", "user", "runtime">> \in Seq(Places)
      /\ <<"runtime", "node", "runtime">> \in Seq(Places)
  BY <1>0
<1> QED
  BY <1>1, <1>2, <1>3 DEF Stacks, RuntimeFrames, UserFrames

\* There is a first frame of the runtime, or none.
LEMMA FirstRuntime ==
  ASSUME NEW frames \in Seq(Places)
  PROVE  /\ FirstRuntimeFrame(frames) \in 1 .. Len(frames) + 1
         /\ FirstRuntimeFrame(frames) <= Len(frames) => frames[FirstRuntimeFrame(frames)] = "runtime"
         /\ \A j \in 1 .. Len(frames) : j < FirstRuntimeFrame(frames) => frames[j] # "runtime"
<1> DEFINE runtime == {i \in 1 .. Len(frames) : frames[i] = "runtime"}
           First(i) == /\ i <= Len(frames) => frames[i] = "runtime"
                       /\ \A j \in 1 .. Len(frames) : j < i => frames[j] # "runtime"
<1>1. \E i \in 1 .. Len(frames) + 1 : First(i)
  <2>1. CASE runtime = {}
    <3>1. First(Len(frames) + 1) /\ Len(frames) + 1 \in 1 .. Len(frames) + 1
      BY <2>1
    <3> QED
      BY <3>1
  <2>2. CASE runtime # {}
    <3>0. runtime \in SUBSET Nat
      OBVIOUS
    <3>1. PICK i \in runtime : \A j \in runtime : i <= j
      BY <2>2, <3>0, LeastElement
    <3>2. First(i) /\ i \in 1 .. Len(frames) + 1
      BY <3>1
    <3> QED
      BY <3>2
  <2> QED
    BY <2>1, <2>2
<1>2. FirstRuntimeFrame(frames) = CHOOSE i \in 1 .. Len(frames) + 1 : First(i)
  BY DEF FirstRuntimeFrame
<1>3. FirstRuntimeFrame(frames) \in 1 .. Len(frames) + 1 /\ First(FirstRuntimeFrame(frames))
  <2> HIDE DEF First
  <2> QED
    BY <1>1, <1>2
<1> QED
  BY <1>3

\* What the sanitizer makes of any stack that it does not leave alone.
LEMMA StackIsWashed ==
  ASSUME NEW frames \in Seq(Places), NEW s,
         s \/ Contains(frames, "user")
  PROVE  /\ ~Contains(WashStack(frames, s), "runtime")
         /\ \A i \in 1 .. Len(frames) : (\A j \in 1 .. i : frames[j] # "runtime") =>
              i <= Len(WashStack(frames, s)) /\ WashStack(frames, s)[i] = frames[i]
<1> DEFINE n == FirstRuntimeFrame(frames) - 1
           w == SubSeq(frames, 1, n)
<1>1. WashStack(frames, s) = w
  BY DEF WashStack
<1>2. /\ n \in 0 .. Len(frames)
      /\ n + 1 <= Len(frames) => frames[n + 1] = "runtime"
      /\ \A j \in 1 .. n : frames[j] # "runtime"
  BY FirstRuntime
<1> HIDE DEF n
<1>3. w \in Seq(Places) /\ Len(w) = n /\ \A j \in 1 .. n : w[j] = frames[j]
  BY <1>2
<1> HIDE DEF w
<1>4. ~Contains(w, "runtime")
  BY <1>2, <1>3 DEF Contains
<1>5. ASSUME NEW i \in 1 .. Len(frames), \A j \in 1 .. i : frames[j] # "runtime"
      PROVE  i <= Len(w) /\ w[i] = frames[i]
  <2>1. Len(frames) \in Nat
    OBVIOUS
  <2>2. i <= n
    <3> SUFFICES ASSUME n + 1 <= i PROVE FALSE
      BY <1>2, <2>1
    <3>1. n + 1 \in 1 .. i /\ n + 1 <= Len(frames)
      BY <1>2, <2>1
    <3> QED
      BY <1>2, <1>5, <3>1
  <2> QED
    BY <1>3, <2>1, <2>2
<1> QED
  BY <1>1, <1>4, <1>5

\* What holds of an answer whose error is washed.
Hidden(a) ==
  a.own => /\ ~Contains(a.stack, "runtime")
           /\ \A i \in 1 .. Len(a.frames) : (\A j \in 1 .. i : a.frames[j] # "runtime") =>
                i <= Len(a.stack) /\ a.stack[i] = a.frames[i]

StackInv == \A r \in DOMAIN answers : Hidden(answers[r])

LEMMA AnswerIsHidden ==
  ASSUME NEW r, NEW kind, NEW frames \in Stacks, NEW s,
         StackInv, Answer(r, kind, frames, s)
  PROVE  StackInv'
<1>1. /\ DOMAIN answers' = DOMAIN answers \cup {r}
      /\ answers'[r].own = (s \/ Contains(frames, "user"))
      /\ answers'[r].frames = frames /\ answers'[r].stack = WashStack(frames, s)
      /\ \A a \in DOMAIN answers : a # r => answers'[a] = answers[a]
  BY DEF Answer
<1>2. Hidden(answers'[r])
  <2>1. PICK a : a = answers'[r]
    OBVIOUS
  <2>2. PICK w : w = WashStack(frames, s)
    OBVIOUS
  <2>3. SUFFICES ASSUME s \/ Contains(frames, "user") PROVE Hidden(answers'[r])
    BY <1>1 DEF Hidden
  <2>4. frames \in Seq(Places)
    BY StackPlaces
  <2>5. /\ ~Contains(w, "runtime")
        /\ \A i \in 1 .. Len(frames) : (\A j \in 1 .. i : frames[j] # "runtime") =>
             i <= Len(w) /\ w[i] = frames[i]
    BY <2>2, <2>3, <2>4, StackIsWashed
  <2>6. a.frames = frames /\ a.stack = w
    BY <1>1, <2>1, <2>2
  <2>7. Hidden(a)
    BY <2>5, <2>6 DEF Hidden
  <2> QED
    BY <2>1, <2>7
<1>3. \A a \in DOMAIN answers : a # r => Hidden(answers'[a])
  BY <1>1 DEF StackInv
<1> QED
  BY <1>1, <1>2, <1>3 DEF StackInv

LEMMA CallIsHidden ==
  ASSUME NEW r, NEW f, StackInv, CallFunction(r, f)
  PROVE  StackInv'
<1>1. RuntimeFrames \in Stacks
  BY DEF Stacks
<1>2. CASE Answer(r, "no id", RuntimeFrames, FALSE)
  BY <1>1, <1>2, AnswerIsHidden
<1>3. CASE UNCHANGED answers
  BY <1>3 DEF StackInv
<1> QED
  BY <1>2, <1>3 DEF CallFunction

LEMMA FindIsHidden ==
  ASSUME NEW r, NEW f, StackInv, FindFunction(r, f)
  PROVE  StackInv'
<1>1. RuntimeFrames \in Stacks
  BY DEF Stacks
<1>2. CallFunction(r, f) \/ Answer(r, "HandlerNotFound", RuntimeFrames, TRUE)
  BY DEF FindFunction
<1> QED
  BY <1>1, <1>2, AnswerIsHidden, CallIsHidden

LEMMA LoadIsHidden ==
  ASSUME NEW r, StackInv, LoadFunction(r)
  PROVE  StackInv'
<1>1. RuntimeFrames \in Stacks
  BY DEF Stacks
<1>2. \/ \E f : CallFunction(r, f) \/ FindFunction(r, f)
      \/ \E kind : Answer(r, kind, RuntimeFrames, TRUE)
      \/ UNCHANGED answers
  BY DEF LoadFunction
<1>3. CASE UNCHANGED answers
  BY <1>3 DEF StackInv
<1> QED
  BY <1>1, <1>2, <1>3, AnswerIsHidden, CallIsHidden, FindIsHidden

\* Every step of the process keeps the stacks of its answers clean.
LEMMA NextStack == StackInv /\ [ProcessNext]_processVars => StackInv'
<1> SUFFICES ASSUME StackInv, [ProcessNext]_processVars PROVE StackInv'
  OBVIOUS
<1>0. RuntimeFrames \in Stacks /\ <<>> \in Stacks /\ \A frames \in UserFrames : frames \in Stacks
  BY DEF Stacks
<1>1. CASE UNCHANGED answers
  BY <1>1 DEF StackInv
<1>2. CASE \E r \in Invocations : InvokeFunction(r)
  BY <1>2, LoadIsHidden DEF InvokeFunction
<1>3. CASE \E r \in Invocations : ChdirThrows(r)
  BY <1>0, <1>3, AnswerIsHidden DEF ChdirThrows
<1>4. CASE \E found \in [Handlers -> 0 .. 1] : EndBody(found)
  BY <1>4, FindIsHidden DEF EndBody
<1>5. CASE \E frames \in UserFrames : BodyThrows(frames)
  BY <1>0, <1>5, AnswerIsHidden DEF BodyThrows
<1>6. CASE EndHandler
  BY <1>0, <1>6, AnswerIsHidden DEF EndHandler
<1>7. CASE Load \/ Wash \/ Start \/ UserChanges \/ UNCHANGED processVars
  BY <1>1, <1>7 DEF Load, Wash, Start, UserChanges, processVars, history
<1> QED
  BY <1>2, <1>3, <1>4, <1>5, <1>6, <1>7 DEF ProcessNext, ProcessRest

\* For any stack of user code, node and the runtime: what is reported of an
\* error hides the runtime and keeps what the user's code did before it.
THEOREM RuntimeIsHidden == ProcessSpec => []RuntimeStaysHidden
<1>1. ProcessInit => StackInv
  BY DEF ProcessInit, StackInv
<1>2. StackInv => RuntimeStaysHidden
  BY DEF StackInv, Hidden, RuntimeStaysHidden
<1> QED
  BY <1>1, <1>2, NextStack, PTL DEF ProcessSpec

-----------------------------------------------------------------------------
(* The functions that loadFunction keeps.                                  *)

\* Functions are kept under handlers, and a request has one.
FoundTypes ==
  /\ request \in Invocations
  /\ called \in [Handlers -> SUBSET Nat]
  /\ globalModule \in [Handlers -> Nat]
  /\ exports \in [Handlers -> Nat]

\* What was called of a handler is what is kept for it.
CalledIsKept ==
  \A h \in Handlers : called[h] = {} \/ (globalModule[h] # 0 /\ called[h] = {globalModule[h]})

\* The code of a module runs for handlers of which nothing is kept.
BodyIsFirst == stage = "body" => globalModule[HandlerOf[request]] = 0

Unfound == {"HandlerNotFound", "ImportModuleError", "body"}
KnownIsFound == \A r \in DOMAIN answers : answers[r].known => answers[r].kind \notin Unfound

FoundInv == FoundTypes /\ CalledIsKept /\ BodyIsFirst /\ KnownIsFound

LEMMA AnswerIsFound ==
  ASSUME NEW r \in Invocations, NEW kind, NEW frames, NEW s, KnownIsFound,
         Answer(r, kind, frames, s),
         kind \in Unfound => called[HandlerOf[r]] = {}
  PROVE  KnownIsFound' /\ stage' = "idle"
<1>1. /\ DOMAIN answers' = DOMAIN answers \cup {r}
      /\ answers'[r].known = (called[HandlerOf[r]] # {}) /\ answers'[r].kind = kind
      /\ \A a \in DOMAIN answers : a # r => answers'[a] = answers[a]
  BY DEF Answer
<1>2. answers'[r].known => answers'[r].kind \notin Unfound
  BY <1>1
<1>3. \A a \in DOMAIN answers : a # r => (answers'[a].known => answers'[a].kind \notin Unfound)
  BY <1>1 DEF KnownIsFound
<1>4. stage' = "idle"
  BY DEF Answer
<1> QED
  BY <1>1, <1>2, <1>3, <1>4 DEF KnownIsFound

\* f is called where f is kept, and nothing else was called.
LEMMA CallIsFound ==
  ASSUME NEW r \in Invocations, NEW f \in Nat, f # 0, FoundTypes, CalledIsKept, KnownIsFound,
         globalModule' = [globalModule EXCEPT ![HandlerOf[r]] = f],
         globalModule[HandlerOf[r]] \in {0, f},
         CallFunction(r, f)
  PROVE  /\ called' \in [Handlers -> SUBSET Nat] /\ CalledIsKept' /\ KnownIsFound'
         /\ stage' # "body"
<1> DEFINE h == HandlerOf[r]
<1>0. h \in Handlers
  BY DEF Handlers
<1>1. called[h] \in {{}, {f}}
  BY <1>0 DEF CalledIsKept
<1>2. globalModule'[h] = f /\ \A g \in Handlers : g # h => globalModule'[g] = globalModule[g]
  BY <1>0 DEF FoundTypes
<1>3. CASE r \in Nameless
  <2>1. Answer(r, "no id", RuntimeFrames, FALSE) /\ called' = called
    BY <1>3 DEF CallFunction
  <2>2. KnownIsFound' /\ stage' = "idle"
    BY <2>1, AnswerIsFound DEF Unfound
  <2>3. CalledIsKept'
    BY <1>1, <1>2, <2>1 DEF CalledIsKept
  <2> QED
    BY <2>1, <2>2, <2>3 DEF FoundTypes
<1>4. CASE r \notin Nameless
  <2>1. /\ called' = [called EXCEPT ![h] = @ \cup {f}]
        /\ stage' = "handler" /\ answers' = answers
    BY <1>4 DEF CallFunction
  <2>2. called' \in [Handlers -> SUBSET Nat]
    BY <1>0, <2>1 DEF FoundTypes
  <2>3. called'[h] = {f} /\ \A g \in Handlers : g # h => called'[g] = called[g]
    BY <1>0, <1>1, <2>1 DEF FoundTypes
  <2>4. CalledIsKept'
    BY <1>2, <2>3 DEF CalledIsKept
  <2> QED
    BY <2>1, <2>2, <2>4 DEF KnownIsFound
<1> QED
  BY <1>3, <1>4

\* The end of loadFunction for a handler of which nothing was kept.
LEMMA FindIsFound ==
  ASSUME NEW r \in Invocations, NEW f \in Nat, FoundTypes, CalledIsKept, KnownIsFound,
         globalModule[HandlerOf[r]] = 0, FindFunction(r, f)
  PROVE  /\ called' \in [Handlers -> SUBSET Nat] /\ globalModule' \in [Handlers -> Nat]
         /\ CalledIsKept' /\ KnownIsFound' /\ stage' # "body"
<1>0. HandlerOf[r] \in Handlers
  BY DEF Handlers
<1>1. CASE f # 0
  <2>1. globalModule' = [globalModule EXCEPT ![HandlerOf[r]] = f] /\ CallFunction(r, f)
    BY <1>1 DEF FindFunction, Keep
  <2>2. globalModule' \in [Handlers -> Nat]
    BY <2>1 DEF FoundTypes
  <2> QED
    BY <1>1, <2>1, <2>2, CallIsFound
<1>2. CASE f = 0
  <2>1. Answer(r, "HandlerNotFound", RuntimeFrames, TRUE) /\ UNCHANGED <<globalModule, called>>
    BY <1>2 DEF FindFunction
  <2>2. called[HandlerOf[r]] = {}
    BY <1>0 DEF CalledIsKept
  <2>3. KnownIsFound' /\ stage' = "idle"
    BY <2>1, <2>2, AnswerIsFound
  <2> QED
    BY <2>1, <2>3 DEF FoundTypes, CalledIsKept
<1> QED
  BY <1>1, <1>2

LEMMA LoadIsFound ==
  ASSUME NEW r \in Invocations, FoundTypes, CalledIsKept, KnownIsFound, LoadFunction(r)
  PROVE  /\ called' \in [Handlers -> SUBSET Nat] /\ globalModule' \in [Handlers -> Nat]
         /\ CalledIsKept' /\ KnownIsFound'
         /\ stage' = "body" => globalModule'[HandlerOf[r]] = 0
<1> DEFINE h == HandlerOf[r]
<1>0. h \in Handlers
  BY DEF Handlers
<1>1. CASE globalModule[h] # 0
  <2>1. CallFunction(r, globalModule[h]) /\ globalModule' = globalModule
    BY <1>1 DEF LoadFunction
  <2>2. globalModule' = [globalModule EXCEPT ![h] = globalModule[h]] /\ globalModule[h] \in Nat
    BY <1>0, <2>1 DEF FoundTypes
  <2>3. globalModule' \in [Handlers -> Nat]
    BY <2>1 DEF FoundTypes
  <2> QED
    BY <1>1, <2>1, <2>2, <2>3, CallIsFound
<1>2. CASE globalModule[h] = 0
  <2>1. called[h] = {}
    BY <1>0, <1>2 DEF CalledIsKept
  <2>2. \/ \E kind : Answer(r, kind, RuntimeFrames, TRUE) /\ UNCHANGED <<globalModule, called>>
        \/ FindFunction(r, exports[h])
        \/ UNCHANGED <<globalModule, called, answers>>
    BY <1>2 DEF LoadFunction
  <2>3. CASE \E kind : Answer(r, kind, RuntimeFrames, TRUE) /\ UNCHANGED <<globalModule, called>>
    <3>1. KnownIsFound' /\ stage' = "idle"
      BY <2>1, <2>3, AnswerIsFound
    <3> QED
      BY <2>3, <3>1 DEF FoundTypes, CalledIsKept
  <2>4. CASE FindFunction(r, exports[h])
    <3>1. exports[h] \in Nat
      BY <1>0 DEF FoundTypes
    <3> QED
      BY <1>2, <2>4, <3>1, FindIsFound
  <2>5. CASE UNCHANGED <<globalModule, called, answers>>
    BY <1>2, <2>5 DEF FoundTypes, CalledIsKept, KnownIsFound
  <2> QED
    BY <2>2, <2>3, <2>4, <2>5
<1> QED
  BY <1>1, <1>2, <1>0 DEF FoundTypes

\* Every step of the process keeps what it found.
LEMMA NextFound == FoundInv /\ [ProcessNext]_processVars => FoundInv'
<1> SUFFICES ASSUME FoundInv, [ProcessNext]_processVars PROVE FoundInv'
  OBVIOUS
<1> USE DEF FoundInv, start, user, history
<1>0. \A r \in Invocations : HandlerOf[r] \in Handlers
  BY DEF Handlers
<1>1. CASE Load \/ Wash \/ Start
  BY <1>1 DEF Load, Wash, Start, FoundTypes, CalledIsKept, BodyIsFirst, KnownIsFound
<1>2. CASE \E r \in Invocations : InvokeFunction(r)
  <2>1. PICK r \in Invocations : InvokeFunction(r)
    BY <1>2
  <2>2. request' = r /\ exports' = exports /\ LoadFunction(r)
    BY <2>1 DEF InvokeFunction
  <2> QED
    BY <2>2, LoadIsFound DEF FoundTypes, BodyIsFirst
<1>3. CASE \E r \in Invocations : ChdirThrows(r)
  <2>1. PICK r \in Invocations : ChdirThrows(r)
    BY <1>3
  <2>2. KnownIsFound' /\ stage' = "idle"
    BY <2>1, AnswerIsFound DEF ChdirThrows, Unfound
  <2> QED
    BY <2>1, <2>2 DEF ChdirThrows, FoundTypes, CalledIsKept, BodyIsFirst
<1>4. CASE \E found \in [Handlers -> 0 .. 1] : EndBody(found)
  <2>1. PICK found \in [Handlers -> 0 .. 1] : EndBody(found)
    BY <1>4
  <2>2. /\ stage = "body" /\ exports' = found /\ request' = request
        /\ FindFunction(request, found[HandlerOf[request]])
    BY <2>1 DEF EndBody
  <2>3. found[HandlerOf[request]] \in Nat /\ found \in [Handlers -> Nat]
    BY <1>0 DEF FoundTypes
  <2> QED
    BY <2>2, <2>3, FindIsFound DEF FoundTypes, BodyIsFirst
<1>5. CASE \E frames \in UserFrames : BodyThrows(frames)
  <2>1. PICK frames \in UserFrames : BodyThrows(frames)
    BY <1>5
  <2>2. Answer(request, "body", frames, FALSE) /\ called[HandlerOf[request]] = {}
    BY <1>0, <2>1 DEF BodyThrows, BodyIsFirst, CalledIsKept, FoundTypes
  <2>3. KnownIsFound' /\ stage' = "idle"
    BY <2>2, AnswerIsFound DEF FoundTypes
  <2> QED
    BY <2>1, <2>3 DEF BodyThrows, FoundTypes, CalledIsKept, BodyIsFirst
<1>6. CASE EndHandler
  <2>1. \E kind \in {"result", "error"} : \E frames : Answer(request, kind, frames, FALSE)
    BY <1>6 DEF EndHandler
  <2>2. KnownIsFound' /\ stage' = "idle"
    BY <2>1, AnswerIsFound DEF FoundTypes, Unfound
  <2> QED
    BY <1>6, <2>2 DEF EndHandler, FoundTypes, CalledIsKept, BodyIsFirst
<1>7. CASE UserChanges
  <2>1. exports' \in [Handlers -> Nat]
    BY <1>7 DEF UserChanges, FoundTypes
  <2> QED
    BY <1>7, <2>1 DEF UserChanges, FoundTypes, CalledIsKept, BodyIsFirst, KnownIsFound
<1>8. CASE UNCHANGED processVars
  BY <1>8 DEF processVars, FoundTypes, CalledIsKept, BodyIsFirst, KnownIsFound
<1> QED
  BY <1>1, <1>2, <1>3, <1>4, <1>5, <1>6, <1>7, <1>8 DEF ProcessNext, ProcessRest

\* For any requests and handlers: a function that was called once is found
\* again and stays the same, whatever user code does to file and exports.
THEOREM FoundIsFound == ProcessSpec => []OnceFoundAlwaysFound
<1>1. ProcessInit => FoundInv
  BY ProcessAssumption DEF ProcessInit, FoundInv, FoundTypes, CalledIsKept, BodyIsFirst, KnownIsFound
<1>2. FoundInv => OnceFoundAlwaysFound
  BY DEF FoundInv, FoundTypes, CalledIsKept, KnownIsFound, Unfound, OnceFoundAlwaysFound
<1> QED
  BY <1>1, <1>2, NextFound, PTL DEF ProcessSpec
=============================================================================
