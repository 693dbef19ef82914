------------------------- MODULE PolicyMergeProofs -------------------------
(***************************************************************************)
(* The merge computes, for every pair of documents and in every order of   *)
(* visits, what MergedByPath says.                                         *)
(***************************************************************************)
EXTENDS PolicyMerge, TLAPS

-----------------------------------------------------------------------------
(* Prefixes of paths *)

\* IsPrefix, element by element.
LEMMA PrefixElements ==
  ASSUME NEW p \in Paths, NEW q \in Paths
  PROVE  IsPrefix(p, q) <=>
           Len(p) <= Len(q) /\ \A i \in 1..Len(p) : p[i] = q[i]
<1>1. Len(p) \in Nat /\ Len(q) \in Nat
  BY DEF Paths
<1>2. ASSUME Len(p) <= Len(q)
      PROVE  SubSeq(p, 1, Len(p)) = SubSeq(q, 1, Len(p)) <=>
               \A i \in 1..Len(p) : p[i] = q[i]
  BY <1>1, <1>2 DEF Paths
<1> QED
  BY <1>1, <1>2 DEF IsPrefix

\* The first n keys of a path.
LEMMA Cut ==
  ASSUME NEW p \in Paths, NEW n \in 0..Len(p)
  PROVE  /\ SubSeq(p, 1, n) \in Paths
         /\ Len(SubSeq(p, 1, n)) = n
         /\ \A i \in 1..n : SubSeq(p, 1, n)[i] = p[i]
BY DEF Paths

\* What the proofs below use of them.
LEMMA PrefixOrder ==
  ASSUME NEW p \in Paths, NEW q \in Paths, NEW r \in Paths
  PROVE  /\ IsPrefix(p, p)
         /\ IsPrefix(p, q) /\ IsPrefix(q, r) => IsPrefix(p, r)
         /\ IsPrefix(p, r) /\ IsPrefix(q, r) =>
              IsPrefix(p, q) \/ IsPrefix(q, p)
         /\ IsPrefix(p, q) /\ Len(p) = Len(q) => p = q
<1>1. Len(p) \in Nat /\ Len(q) \in Nat /\ Len(r) \in Nat
  BY DEF Paths
<1>2. ASSUME IsPrefix(p, q), Len(p) = Len(q)
      PROVE  p = q
  <2>1. \A i \in 1..Len(p) : p[i] = q[i]
    BY <1>2, PrefixElements
  <2> QED
    BY <1>2, <2>1 DEF Paths
<1> QED
  BY <1>1, <1>2, PrefixElements

\* Cutting a path short leaves a prefix of it, and keeps the prefixes that fit.
LEMMA CutPrefix ==
  ASSUME NEW p \in Paths, NEW q \in Paths, NEW n \in 0..Len(q)
  PROVE  /\ IsPrefix(SubSeq(q, 1, n), q)
         /\ IsPrefix(p, q) /\ Len(p) = n => SubSeq(q, 1, n) = p
         /\ IsPrefix(p, q) /\ n < Len(p) => SubSeq(q, 1, n) = SubSeq(p, 1, n)
         /\ IsPrefix(p, q) /\ Len(p) <= n => IsPrefix(p, SubSeq(q, 1, n))
         /\ IsPrefix(p, SubSeq(q, 1, n)) => IsPrefix(p, q)
<1> DEFINE c == SubSeq(q, 1, n)
<1>1. /\ Len(p) \in Nat /\ Len(q) \in Nat /\ n \in Nat
      /\ c \in Paths /\ Len(c) = n /\ \A i \in 1..n : c[i] = q[i]
  BY Cut DEF Paths
<1> HIDE DEF c
<1>2. IsPrefix(c, q)
  BY <1>1, PrefixElements
<1>3. ASSUME IsPrefix(p, q), Len(p) = n
      PROVE  c = p
  <2>1. \A i \in 1..n : p[i] = c[i]
    BY <1>1, <1>3, PrefixElements
  <2> QED
    BY <1>1, <1>3, <2>1 DEF Paths
<1>4. ASSUME IsPrefix(p, q), n < Len(p)
      PROVE  c = SubSeq(p, 1, n)
  <2>1. n \in 0..Len(p)
    BY <1>1, <1>4
  <2>2. /\ SubSeq(p, 1, n) \in Paths /\ Len(SubSeq(p, 1, n)) = n
        /\ \A i \in 1..n : SubSeq(p, 1, n)[i] = p[i]
    BY <2>1, Cut
  <2>3. \A i \in 1..n : SubSeq(p, 1, n)[i] = c[i]
    BY <1>1, <1>4, <2>2, PrefixElements
  <2> QED
    BY <1>1, <2>2, <2>3 DEF Paths
<1>5. IsPrefix(p, q) /\ Len(p) <= n => IsPrefix(p, c)
  BY <1>1, PrefixElements
<1>6. IsPrefix(p, c) => IsPrefix(p, q)
  BY <1>1, <1>2, PrefixOrder
<1> QED
  BY <1>2, <1>3, <1>4, <1>5, <1>6 DEF c

-----------------------------------------------------------------------------
(* Documents *)

\* The paths of a document.
LEMMA DocumentPaths ==
  ASSUME NEW t, IsDocument(t)
  PROVE  /\ << >> \in DOMAIN t
         /\ \A p \in DOMAIN t : p \in Paths /\ Len(p) \in Nat
         /\ \A p, q \in DOMAIN t :
              IsPrefix(p, q) /\ p # q => t[p] = Object
         /\ \A p \in Paths, q \in DOMAIN t :
              IsPrefix(p, q) => p \in DOMAIN t
<1>1. /\ << >> \in DOMAIN t
      /\ \A p \in DOMAIN t : p \in Paths /\ Len(p) \in Nat
  BY DEF IsDocument, Paths
<1>2. ASSUME NEW p \in Paths, NEW q \in DOMAIN t, IsPrefix(p, q)
      PROVE  p = q \/ (p \in DOMAIN t /\ t[p] = Object)
  <2>1. q \in Paths /\ Len(p) \in Nat /\ Len(q) \in Nat /\ Len(p) <= Len(q)
    BY <1>1, <1>2, PrefixElements DEF Paths
  <2>2. CASE Len(p) = Len(q)
    BY <1>2, <2>1, <2>2, PrefixOrder
  <2>3. CASE Len(p) # Len(q)
    <3>1. Len(p) \in 0..(Len(q) - 1) /\ Len(p) \in 0..Len(q)
      BY <2>1, <2>3
    <3>2. SubSeq(q, 1, Len(p)) = p
      BY <1>2, <2>1, <3>1, CutPrefix
    <3> QED
      BY <3>1, <3>2 DEF IsDocument
  <2> QED
    BY <2>2, <2>3
<1> QED
  BY <1>1, <1>2

\* A function with these paths and nodes is a document if every proper prefix
\* of a path is an object in it.
LEMMA MakeDocument ==
  ASSUME NEW t, DOMAIN t \subseteq Paths, << >> \in DOMAIN t,
         t \in [DOMAIN t -> Leaves \cup {Object}],
         \A p \in DOMAIN t : \A c \in Paths :
           IsPrefix(c, p) /\ c # p => c \in DOMAIN t /\ t[c] = Object
  PROVE  IsDocument(t)
<1>1. ASSUME NEW p \in DOMAIN t, NEW n \in 0..(Len(p) - 1)
      PROVE  SubSeq(p, 1, n) \in DOMAIN t /\ t[SubSeq(p, 1, n)] = Object
  <2>1. p \in Paths /\ Len(p) \in Nat
    BY DEF Paths
  <2>2. n \in 0..Len(p) /\ n # Len(p)
    BY <2>1
  <2>3. /\ SubSeq(p, 1, n) \in Paths /\ Len(SubSeq(p, 1, n)) = n
        /\ IsPrefix(SubSeq(p, 1, n), p)
    BY <2>1, <2>2, Cut, CutPrefix
  <2>4. SubSeq(p, 1, n) # p
    BY <2>2, <2>3
  <2> QED
    BY <2>3, <2>4
<1> QED
  BY <1>1 DEF IsDocument

-----------------------------------------------------------------------------
(* Grafting *)

\* A subtree that is grafted where all that is above is an object makes a
\* document.
LEMMA GraftDocument ==
  ASSUME NEW t, NEW u, IsDocument(t), IsDocument(u), NEW p \in DOMAIN u,
         p # << >>,
         \A c \in Paths : IsPrefix(c, p) /\ c # p =>
           c \in DOMAIN t /\ t[c] = Object
  PROVE  IsDocument(Graft(t, u, p))
<1> DEFINE g == Graft(t, u, p)
<1>1. /\ DOMAIN g = {q \in DOMAIN t : ~IsPrefix(p, q)} \cup
                    {q \in DOMAIN u : IsPrefix(p, q)}
      /\ \A q \in DOMAIN u : IsPrefix(p, q) => g[q] = u[q]
      /\ \A q \in DOMAIN t : ~IsPrefix(p, q) => g[q] = t[q]
      /\ g = [q \in DOMAIN g |-> g[q]]
  BY DEF Graft
<1>2. /\ p \in Paths /\ \A q \in DOMAIN t : q \in Paths
      /\ \A q \in DOMAIN u : q \in Paths
      /\ << >> \in DOMAIN t
  BY DocumentPaths
<1> HIDE DEF g
<1>3. ~IsPrefix(p, << >>)
  <2>1. << >> \in Paths /\ Len(<< >>) = 0 /\ Len(p) \in Nat
    BY <1>2 DEF Paths
  <2>2. IsPrefix(p, << >>) => Len(p) = 0
    BY <1>2, <2>1, PrefixElements
  <2> QED
    BY <1>2, <2>1, <2>2, PrefixOrder
<1>4. \A q \in DOMAIN g : g[q] \in Leaves \cup {Object}
  <2>1. /\ \A q \in DOMAIN t : t[q] \in Leaves \cup {Object}
        /\ \A q \in DOMAIN u : u[q] \in Leaves \cup {Object}
    BY DEF IsDocument
  <2> QED
    BY <1>1, <2>1
<1>5. ASSUME NEW q \in DOMAIN g, NEW c \in Paths, IsPrefix(c, q), c # q
      PROVE  c \in DOMAIN g /\ g[c] = Object
  <2>1. q \in Paths
    BY <1>1, <1>2
  <2>2. CASE q \in DOMAIN t /\ ~IsPrefix(p, q)
    <3>1. c \in DOMAIN t /\ t[c] = Object
      BY <1>5, <2>1, <2>2, DocumentPaths
    <3>2. ~IsPrefix(p, c)
      BY <1>2, <1>5, <2>1, <2>2, PrefixOrder
    <3> QED
      BY <1>1, <3>1, <3>2
  <2>3. CASE q \in DOMAIN u /\ IsPrefix(p, q)
    <3>1. IsPrefix(p, c) \/ IsPrefix(c, p)
      BY <1>2, <1>5, <2>1, <2>3, PrefixOrder
    <3>2. CASE IsPrefix(p, c)
      <4>1. c \in DOMAIN u /\ u[c] = Object
        BY <1>5, <2>1, <2>3, DocumentPaths
      <4> QED
        BY <1>1, <3>2, <4>1
    <3>3. CASE ~IsPrefix(p, c)
      <4>1. IsPrefix(c, p) /\ c # p
        BY <1>2, <3>1, <3>3, PrefixOrder
      <4>2. c \in DOMAIN t /\ t[c] = Object
        BY <4>1
      <4> QED
        BY <1>1, <3>3, <4>2
    <3> QED
      BY <3>2, <3>3
  <2> QED
    BY <1>1, <2>2, <2>3
<1>6. /\ DOMAIN g \subseteq Paths /\ << >> \in DOMAIN g
      /\ g \in [DOMAIN g -> Leaves \cup {Object}]
  BY <1>1, <1>2, <1>3, <1>4
<1>7. IsDocument(g)
  BY <1>5, <1>6, MakeDocument
<1> QED
  BY <1>7 DEF g

-----------------------------------------------------------------------------
(* The loops *)

\* While the loops run: the keys that wait are in different branches of the
\* overlay, and everything above them is an object on both sides.
Branches ==
  pc = "merging" /\ params # NoParams =>
    /\ params[<< >>] = Object
    /\ \A p \in todo : p # << >>
    /\ \A p, q \in todo : IsPrefix(p, q) => p = q
    /\ \A p \in todo, c \in Paths : IsPrefix(c, p) /\ c # p =>
         c \in DOMAIN merged /\ merged[c] = Object

\* What holds before and after the loops.
Ends ==
  /\ pc = "start" => merged = default /\ todo = {}
  /\ pc = "merging" => default[<< >>] = Object
  /\ pc = "merging" /\ params = NoParams => merged = default

MergeInv == TypeOK /\ Ends /\ Branches /\ MergedSoFar /\ MergedByPath

\* Initially nothing is merged.
LEMMA InitMerge == Init => MergeInv
BY Documents DEF Init, MergeInv, TypeOK, Ends, Branches, MergedSoFar,
   MergedByPath

\* The documents of a run.
LEMMA ParamsDocument == TypeOK => /\ IsDocument(default) /\ IsDocument(merged)
                                  /\ params # NoParams => IsDocument(params)
BY Documents DEF TypeOK

\* The entries of an object: one key longer, and on the way to everything that
\* is below the object.
LEMMA EntriesBelow ==
  ASSUME NEW t, IsDocument(t), NEW p \in DOMAIN t
  PROVE  /\ \A q \in Entries(t, p) :
              q \in DOMAIN t /\ IsPrefix(p, q) /\ q # p /\ Len(q) = Len(p) + 1
         /\ \A q \in DOMAIN t : IsPrefix(p, q) /\ q # p =>
              \E e \in Entries(t, p) : IsPrefix(e, q)
         /\ \A q \in Entries(t, p), c \in Paths :
              IsPrefix(c, q) /\ c # q => IsPrefix(c, p)
<1>1. p \in Paths /\ Len(p) \in Nat /\ \A q \in DOMAIN t : q \in Paths /\ Len(q) \in Nat
  BY DocumentPaths
<1>2. \A q \in Entries(t, p) :
        q \in DOMAIN t /\ IsPrefix(p, q) /\ q # p /\ Len(q) = Len(p) + 1
  BY <1>1 DEF Entries
<1>3. ASSUME NEW q \in DOMAIN t, IsPrefix(p, q), q # p
      PROVE  \E e \in Entries(t, p) : IsPrefix(e, q)
  <2> DEFINE e == SubSeq(q, 1, Len(p) + 1)
  <2>1. Len(p) < Len(q)
    <3>1. Len(p) <= Len(q)
      BY <1>1, <1>3, PrefixElements
    <3>2. Len(p) # Len(q)
      BY <1>1, <1>3, PrefixOrder
    <3> QED
      BY <1>1, <3>1, <3>2
  <2>2. Len(p) + 1 \in 0..Len(q) /\ Len(p) <= Len(p) + 1
    BY <1>1, <2>1
  <2>3. e \in Paths /\ Len(e) = Len(p) + 1 /\ IsPrefix(e, q) /\ IsPrefix(p, e)
    BY <1>1, <1>3, <2>2, Cut, CutPrefix
  <2>4. e \in DOMAIN t
    BY <2>3, DocumentPaths
  <2> QED
    BY <2>3, <2>4 DEF Entries
<1>4. ASSUME NEW q \in Entries(t, p), NEW c \in Paths, IsPrefix(c, q), c # q
      PROVE  IsPrefix(c, p)
  <2>1. /\ q \in Paths /\ IsPrefix(p, q) /\ Len(q) = Len(p) + 1
        /\ Len(c) \in Nat
    BY <1>1, <1>2 DEF Paths
  <2>2. Len(c) <= Len(q) /\ Len(c) # Len(q)
    BY <1>4, <2>1, PrefixElements, PrefixOrder
  <2>3. Len(c) <= Len(p)
    BY <1>1, <2>1, <2>2
  <2> QED
    BY <1>1, <1>4, <2>1, <2>3, PrefixElements
<1> QED
  BY <1>2, <1>3, <1>4

-----------------------------------------------------------------------------
(* One visit *)

\* An object is entered: its entries take its place in todo.
LEMMA Enter ==
  ASSUME MergeInv, params # NoParams, NEW p \in todo, MergeKey(p),
         p \in DOMAIN merged, merged[p] = Object, params[p] = Object
  PROVE  MergeInv'
<1>1. /\ pc = "merging" /\ UNCHANGED <<default, params, pc, merged>>
      /\ todo' = (todo \ {p}) \cup Entries(params, p)
  BY DEF MergeKey
<1>2. /\ IsDocument(params) /\ IsDocument(merged) /\ IsDocument(default)
      /\ todo \subseteq DOMAIN params /\ p \in DOMAIN params
  BY ParamsDocument DEF MergeInv, TypeOK
<1>3. /\ \A q \in DOMAIN params : q \in Paths
      /\ \A q \in DOMAIN default : q \in Paths
      /\ \A q \in DOMAIN merged : q \in Paths
      /\ p \in Paths /\ Len(p) \in Nat
  BY <1>2, DocumentPaths
<1>4. /\ \A q \in Entries(params, p) :
           /\ q \in DOMAIN params /\ IsPrefix(p, q) /\ q # p
           /\ Len(q) = Len(p) + 1
      /\ \A q \in DOMAIN params : IsPrefix(p, q) /\ q # p =>
           \E e \in Entries(params, p) : IsPrefix(e, q)
      /\ \A q \in Entries(params, p), c \in Paths :
           IsPrefix(c, q) /\ c # q => IsPrefix(c, p)
  BY <1>2, EntriesBelow
<1>5. /\ params[<< >>] = Object
      /\ \A q \in todo : q # << >>
      /\ \A q, r \in todo : IsPrefix(q, r) => q = r
      /\ \A q \in todo, c \in Paths : IsPrefix(c, q) /\ c # q =>
           c \in DOMAIN merged /\ merged[c] = Object
  BY <1>1 DEF MergeInv, Branches
<1>6. merged = Overlaid(default, params, Visited)
  BY <1>1 DEF MergeInv, MergedSoFar
<1>7. TypeOK'
  BY <1>1, <1>2, <1>4 DEF MergeInv, TypeOK
<1>8. Branches'
  <2>1. \A q \in todo' : q # << >>
    <3>1. ASSUME NEW q \in Entries(params, p), q = << >>
          PROVE  FALSE
      <4>1. Len(p) + 1 = 0
        BY <1>4, <3>1
      <4> QED
        BY <1>3, <4>1
    <3> QED
      BY <1>1, <1>5, <3>1
  <2>2. ASSUME NEW q \in todo', NEW r \in todo', IsPrefix(q, r)
        PROVE  q = r
    <3>1. q \in Paths /\ r \in Paths
      BY <1>1, <1>2, <1>3, <1>4
    <3>2. CASE q \in todo \ {p} /\ r \in todo \ {p}
      BY <1>5, <2>2, <3>2
    <3>3. CASE q \in todo \ {p} /\ r \in Entries(params, p)
      <4>1. IsPrefix(p, q) \/ IsPrefix(q, p)
        BY <1>3, <1>4, <2>2, <3>1, <3>3, PrefixOrder
      <4> QED
        BY <1>5, <3>3, <4>1
    <3>4. CASE q \in Entries(params, p) /\ r \in todo \ {p}
      <4>1. IsPrefix(p, r)
        BY <1>3, <1>4, <2>2, <3>1, <3>4, PrefixOrder
      <4> QED
        BY <1>5, <3>4, <4>1
    <3>5. CASE q \in Entries(params, p) /\ r \in Entries(params, p)
      BY <1>4, <2>2, <3>1, <3>5, PrefixOrder
    <3> QED
      BY <1>1, <3>2, <3>3, <3>4, <3>5
  <2>3. ASSUME NEW q \in todo', NEW c \in Paths, IsPrefix(c, q), c # q
        PROVE  c \in DOMAIN merged /\ merged[c] = Object
    <3>1. CASE q \in todo
      BY <1>5, <2>3, <3>1
    <3>2. CASE q \in Entries(params, p)
      <4>1. IsPrefix(c, p)
        BY <1>4, <2>3, <3>2
      <4> QED
        BY <1>5, <4>1
    <3> QED
      BY <1>1, <3>1, <3>2
  <2> QED
    BY <1>1, <1>5, <2>1, <2>2, <2>3 DEF Branches
<1>9. Visited' = Visited \cup {p}
  <2>1. ASSUME NEW q \in DOMAIN params
        PROVE  (\A r \in todo' : ~IsPrefix(r, q)) <=>
                 (\A r \in todo : ~IsPrefix(r, q)) \/ q = p
    <3>1. CASE q = p
      <4>1. \A r \in todo \ {p} : ~IsPrefix(r, p)
        BY <1>5
      <4>2. \A r \in Entries(params, p) : ~IsPrefix(r, p)
        <5>1. ASSUME NEW r \in Entries(params, p), IsPrefix(r, p)
              PROVE  FALSE
          <6>1. Len(r) <= Len(p) /\ Len(r) = Len(p) + 1
            BY <1>3, <1>4, <5>1, PrefixElements
          <6> QED
            BY <1>3, <6>1
        <5> QED
          BY <5>1
      <4> QED
        BY <1>1, <3>1, <4>1, <4>2
    <3>2. CASE q # p
      <4>1. \A r \in Entries(params, p) : IsPrefix(r, q) => IsPrefix(p, q)
        BY <1>3, <1>4, PrefixOrder
      <4>2. IsPrefix(p, q) => \E e \in Entries(params, p) : IsPrefix(e, q)
        BY <1>4, <3>2
      <4> QED
        BY <1>1, <3>2, <4>1, <4>2
    <3> QED
      BY <3>1, <3>2
  <2> QED
    BY <1>1, <1>2, <2>1 DEF Visited
<1>10. merged = Overlaid(default, params, Visited \cup {p})
  <2>1. p \notin Visited
    BY <1>3, PrefixOrder DEF Visited
  <2>2. /\ p \in DOMAIN default /\ default[p] = Object
        /\ \A r \in Visited : IsPrefix(r, p) => params[r] = Object
    BY <1>6, <2>1 DEF Overlaid
  <2>3. \A q \in DOMAIN default :
          (\A r \in Visited \cup {p} : IsPrefix(r, q) => params[r] = Object)
            <=> (\A r \in Visited : IsPrefix(r, q) => params[r] = Object)
    OBVIOUS
  <2>4. DOMAIN merged =
          (Visited \cup {p}) \cup {q \in DOMAIN default :
             \A r \in Visited \cup {p} : IsPrefix(r, q) => params[r] = Object}
    BY <1>6, <2>2, <2>3 DEF Overlaid
  <2>5. \A q \in DOMAIN merged :
          merged[q] = IF q \in Visited \cup {p} THEN params[q] ELSE default[q]
    BY <1>6, <2>1, <2>2 DEF Overlaid
  <2>6. merged = [q \in DOMAIN merged |-> merged[q]]
    BY <1>6 DEF Overlaid
  <2> QED
    BY <2>4, <2>5, <2>6 DEF Overlaid
<1>11. MergedSoFar'
  BY <1>1, <1>9, <1>10 DEF MergedSoFar, Overlaid
<1> QED
  BY <1>1, <1>7, <1>8, <1>11 DEF MergeInv, Ends, MergedByPath

\* Anything else is replaced or added as a whole.
LEMMA Replace ==
  ASSUME MergeInv, params # NoParams, NEW p \in todo, MergeKey(p),
         ~(p \in DOMAIN merged /\ merged[p] = Object /\ params[p] = Object)
  PROVE  MergeInv'
<1>1. /\ pc = "merging" /\ UNCHANGED <<default, params, pc>>
      /\ todo' = todo \ {p}
      /\ merged' = Graft(merged, params, p)
  BY DEF MergeKey
<1>2. /\ IsDocument(params) /\ IsDocument(merged) /\ IsDocument(default)
      /\ todo \subseteq DOMAIN params /\ p \in DOMAIN params
  BY ParamsDocument DEF MergeInv, TypeOK
<1>3. /\ \A q \in DOMAIN params : q \in Paths
      /\ \A q \in DOMAIN default : q \in Paths
      /\ \A q \in DOMAIN merged : q \in Paths
      /\ p \in Paths
  BY <1>2, DocumentPaths
<1>4. /\ params[<< >>] = Object
      /\ \A q \in todo : q # << >>
      /\ \A q, r \in todo : IsPrefix(q, r) => q = r
      /\ \A q \in todo, c \in Paths : IsPrefix(c, q) /\ c # q =>
           c \in DOMAIN merged /\ merged[c] = Object
  BY <1>1 DEF MergeInv, Branches
<1>5. merged = Overlaid(default, params, Visited)
  BY <1>1 DEF MergeInv, MergedSoFar
<1>6. TypeOK'
  <2>1. IsDocument(merged')
    BY <1>1, <1>2, <1>4, GraftDocument
  <2> QED
    BY <1>1, <1>2, <2>1 DEF MergeInv, TypeOK
<1> DEFINE new == {q \in DOMAIN params : IsPrefix(p, q)}
<1>7. /\ DOMAIN merged' = {q \in DOMAIN merged : ~IsPrefix(p, q)} \cup new
      /\ merged' = [q \in DOMAIN merged' |->
                      IF q \in new THEN params[q] ELSE merged[q]]
  BY <1>1 DEF Graft
<1>8. Branches'
  <2>1. ASSUME NEW q \in todo \ {p}, NEW c \in Paths, IsPrefix(c, q), c # q
        PROVE  c \in DOMAIN merged' /\ merged'[c] = Object
    <3>1. c \in DOMAIN merged /\ merged[c] = Object
      BY <1>4, <2>1
    <3>2. ~IsPrefix(p, c)
      BY <1>2, <1>3, <1>4, <2>1, PrefixOrder
    <3> QED
      BY <1>7, <3>1, <3>2
  <2> QED
    BY <1>1, <1>4, <2>1 DEF Branches
<1>9. Visited' = Visited \cup new
  <2>1. ASSUME NEW q \in DOMAIN params
        PROVE  (\A r \in todo' : ~IsPrefix(r, q)) <=>
                 (\A r \in todo : ~IsPrefix(r, q)) \/ IsPrefix(p, q)
    <3>1. ASSUME NEW r \in todo \ {p}, IsPrefix(r, q), IsPrefix(p, q)
          PROVE  FALSE
      <4>1. IsPrefix(p, r) \/ IsPrefix(r, p)
        BY <1>2, <1>3, <3>1, PrefixOrder
      <4> QED
        BY <1>4, <3>1, <4>1
    <3> QED
      BY <1>1, <3>1
  <2> QED
    BY <1>1, <2>1 DEF Visited
<1>10. \A q \in Visited : q \in DOMAIN params /\ ~IsPrefix(p, q)
  BY DEF Visited
<1>11. ASSUME NEW q \in DOMAIN default, q \notin Visited \cup new
       PROVE  (\A r \in Visited \cup new : IsPrefix(r, q) => params[r] = Object)
                <=> ~IsPrefix(p, q) /\
                    \A r \in Visited : IsPrefix(r, q) => params[r] = Object
  <2>1. CASE ~IsPrefix(p, q)
    <3>1. \A r \in new : ~IsPrefix(r, q)
      BY <1>3, <2>1, PrefixOrder
    <3> QED
      BY <2>1, <3>1
  <2>2. CASE IsPrefix(p, q)
    <3>1. p \in new
      BY <1>2, <1>3, PrefixOrder
    <3>2. SUFFICES ASSUME \A r \in Visited \cup new :
                            IsPrefix(r, q) => params[r] = Object
                   PROVE  FALSE
      BY <2>2
    <3>3. params[p] = Object
      BY <2>2, <3>1, <3>2
    <3>4. q \in DOMAIN merged
      BY <1>5, <3>2 DEF Overlaid
    <3>5. q # p
      BY <1>11, <3>1
    <3>6. p \in DOMAIN merged /\ merged[p] = Object
      BY <1>2, <1>3, <2>2, <3>4, <3>5, DocumentPaths
    <3> QED
      BY <3>3, <3>6
  <2> QED
    BY <2>1, <2>2
<1>12. merged' = Overlaid(default, params, Visited \cup new)
  <2>1. DOMAIN merged =
          Visited \cup {q \in DOMAIN default :
             \A r \in Visited : IsPrefix(r, q) => params[r] = Object}
    BY <1>5 DEF Overlaid
  <2>2. \A q \in DOMAIN merged :
          merged[q] = IF q \in Visited THEN params[q] ELSE default[q]
    BY <1>5 DEF Overlaid
  <2>3. DOMAIN merged' =
          (Visited \cup new) \cup {q \in DOMAIN default :
             \A r \in Visited \cup new : IsPrefix(r, q) => params[r] = Object}
    BY <1>7, <1>10, <1>11, <2>1
  <2>4. \A q \in DOMAIN merged' :
          merged'[q] = IF q \in Visited \cup new THEN params[q] ELSE default[q]
    BY <1>7, <2>2
  <2> QED
    BY <1>7, <2>3, <2>4 DEF Overlaid
<1>13. MergedSoFar'
  BY <1>1, <1>9, <1>12 DEF MergedSoFar, Overlaid
<1> QED
  BY <1>1, <1>6, <1>8, <1>13 DEF MergeInv, Ends, MergedByPath

-----------------------------------------------------------------------------

\* The loops begin with the entries of the overlay: they have visited only its
\* root, an object on both sides.
LEMMA BeginMerge == MergeInv /\ Begin => MergeInv'
<1> SUFFICES ASSUME MergeInv, Begin
             PROVE  MergeInv'
  OBVIOUS
<1>1. /\ pc = "start" /\ pc' = "merging" /\ UNCHANGED <<default, params, merged>>
      /\ default[<< >>] = Object /\ merged = default
  BY DEF Begin, MergeInv, Ends
<1>2. Ends' /\ MergedByPath'
  BY <1>1 DEF Ends, MergedByPath
<1>3. CASE params = NoParams
  <2>1. todo' = {}
    BY <1>3 DEF Begin
  <2> QED
    BY <1>1, <1>2, <1>3, <2>1 DEF MergeInv, TypeOK, Branches, MergedSoFar
<1>4. CASE params # NoParams
  <2>1. params[<< >>] = Object /\ todo' = Entries(params, << >>)
    BY <1>4 DEF Begin
  <2>2. /\ IsDocument(params) /\ IsDocument(default)
        /\ << >> \in DOMAIN params /\ << >> \in DOMAIN default
        /\ << >> \in Paths /\ Len(<< >>) = 0
        /\ \A q \in DOMAIN params : q \in Paths
        /\ \A q \in DOMAIN default : q \in Paths
    BY <1>4, ParamsDocument, DocumentPaths DEF MergeInv, Paths
  <2>3. /\ \A q \in todo' : /\ q \in DOMAIN params /\ q # << >>
                            /\ Len(q) = 1
        /\ \A q \in DOMAIN params : q # << >> /\ IsPrefix(<< >>, q) =>
             \E e \in todo' : IsPrefix(e, q)
        /\ \A q \in todo', c \in Paths :
             IsPrefix(c, q) /\ c # q => IsPrefix(c, << >>)
    <3> DEFINE root == << >>
    <3>1. root \in DOMAIN params /\ Len(root) = 0
      BY <2>2
    <3> HIDE DEF root
    <3>2. /\ \A q \in Entries(params, root) :
               /\ q \in DOMAIN params /\ q # root
               /\ Len(q) = Len(root) + 1
          /\ \A q \in DOMAIN params : IsPrefix(root, q) /\ q # root =>
               \E e \in Entries(params, root) : IsPrefix(e, q)
          /\ \A q \in Entries(params, root), c \in Paths :
               IsPrefix(c, q) /\ c # q => IsPrefix(c, root)
      BY <2>2, <3>1, EntriesBelow
    <3>3. todo' = Entries(params, root)
      BY <2>1 DEF root
    <3>4. Len(root) + 1 = 1
      BY <3>1
    <3>5. /\ \A q \in todo' : /\ q \in DOMAIN params /\ q # root
                              /\ Len(q) = 1
          /\ \A q \in DOMAIN params : q # root /\ IsPrefix(root, q) =>
               \E e \in todo' : IsPrefix(e, q)
          /\ \A q \in todo', c \in Paths :
               IsPrefix(c, q) /\ c # q => IsPrefix(c, root)
      BY <3>2, <3>3, <3>4
    <3> QED
      BY <3>5 DEF root
  <2>4. /\ \A q \in Paths : IsPrefix(<< >>, q)
        /\ \A q \in Paths : IsPrefix(q, << >>) => q = << >>
    BY <2>2, PrefixElements DEF Paths
  <2>5. TypeOK'
    BY <1>1, <1>4, <2>3 DEF MergeInv, TypeOK
  <2>6. Branches'
    <3>1. \A q, r \in todo' : IsPrefix(q, r) => q = r
      BY <2>2, <2>3, PrefixOrder
    <3> QED
      BY <1>1, <2>1, <2>2, <2>3, <2>4, <3>1 DEF Branches
  <2>7. Visited' = {<< >>}
    BY <1>1, <2>2, <2>3, <2>4 DEF Visited
  <2>8. default = Overlaid(default, params, {<< >>})
    BY <1>1, <2>1, <2>2 DEF Overlaid, IsDocument
  <2>9. MergedSoFar'
    BY <1>1, <2>7, <2>8 DEF MergedSoFar, Overlaid
  <2> QED
    BY <1>2, <2>5, <2>6, <2>9 DEF MergeInv
<1> QED
  BY <1>3, <1>4

\* When no key waits, everything has been visited.
LEMMA EndMerge == MergeInv /\ End => MergeInv'
<1> SUFFICES ASSUME MergeInv, End
             PROVE  MergeInv'
  OBVIOUS
<1>1. /\ pc = "merging" /\ todo = {} /\ pc' = "done"
      /\ UNCHANGED <<default, params, merged, todo>>
  BY DEF End
<1>2. Visited = DOMAIN params
  BY <1>1 DEF Visited
<1>3. MergedByPath'
  BY <1>1, <1>2 DEF MergeInv, Ends, MergedSoFar, MergedByPath, Overlaid
<1> QED
  BY <1>1, <1>3 DEF MergeInv, TypeOK, Ends, Branches, MergedSoFar

\* Every step keeps the invariant.
LEMMA StepMerge == MergeInv /\ [Next]_vars => MergeInv'
<1> SUFFICES ASSUME MergeInv, [Next]_vars
             PROVE  MergeInv'
  OBVIOUS
<1>1. ASSUME Refuse
      PROVE  MergeInv'
  BY <1>1 DEF Refuse, MergeInv, TypeOK, Ends, Branches, MergedSoFar,
     MergedByPath
<1>2. ASSUME NEW p \in todo, MergeKey(p)
      PROVE  MergeInv'
  <2>1. params # NoParams
    BY DEF MergeInv, TypeOK
  <2> QED
    BY <1>2, <2>1, Enter, Replace
<1>3. ASSUME UNCHANGED vars
      PROVE  MergeInv'
  BY <1>3 DEF vars, MergeInv, TypeOK, Ends, Branches, MergedSoFar,
     MergedByPath, Visited, Overlaid
<1> QED
  BY <1>1, <1>2, <1>3, BeginMerge, EndMerge DEF Next

\* What is being merged is a document at every step.
THEOREM MergeTypeCorrect == Spec => []TypeOK
<1>1. MergeInv => TypeOK
  BY DEF MergeInv
<1> QED
  BY <1>1, InitMerge, StepMerge, PTL DEF Spec

\* At every step the merged value is the default under what has been visited,
\* whatever the order of the visits.
THEOREM MergedSoFarHolds == Spec => []MergedSoFar
<1>1. MergeInv => MergedSoFar
  BY DEF MergeInv
<1> QED
  BY <1>1, InitMerge, StepMerge, PTL DEF Spec

\* The result of the merge, for any two documents of any depth.
THEOREM MergedByPathHolds == Spec => []MergedByPath
<1>1. MergeInv => MergedByPath
  BY DEF MergeInv
<1> QED
  BY <1>1, InitMerge, StepMerge, PTL DEF Spec
=============================================================================
