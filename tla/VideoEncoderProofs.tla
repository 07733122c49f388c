-------------------------- MODULE VideoEncoderProofs -------------------------
(* Theorems about the encoder and a receiver: any GPUs, parameter sets,     *)
(* timestamps and limits.                                                  *)
EXTENDS VideoEncoder, SequenceTheorems, WellFoundedInduction, TLAPS

NvencAllowed == backend = "nvenc" \/ (backend = "auto" /\ fallback)

\* The constructor: NVENC is a candidate only if it may be; whatever failed so
\* far has left no converter.
InvChoice ==
    /\ selected = "nvenc" \/ (\E i \in DOMAIN todo : todo[i] = "nvenc")
         => NvencAllowed
    /\ pc = "init" => ~intel
    /\ pc = "ready" =>
         /\ intel <=> selected = "intel-vaapi"
         /\ intel => device \in Matching
         /\ ~intel => device = 0

\* The stream: what is cached is what a decoder that has read everything has.
InvStream ==
    /\ whole = [sps |-> sps, pps |-> pps]
    /\ error # "refused"
    /\ rx = "joined" => rxPts <= lastPts
    /\ pc = "ready" => /\ rx = "joined" => joined = whole
                       /\ rx = "waiting" => ~asked
    /\ pc = "init" => rx # "joined" /\ ~asked

IInv == TypeOK /\ InvChoice /\ InvStream

-----------------------------------------------------------------------------
(* Lemmas on least and greatest numbers.                                   *)

Less == {p \in Nat \X Nat : p[1] < p[2]}

\* The natural numbers are well-founded.
LEMMA LessWellFounded == IsWellFoundedOn(Less, Nat)
  BY ONLY NatLessThanWellFounded DEF OpToRel, Less

\* A set of natural numbers has a least one.
LEMMA MinNat ==
  ASSUME NEW I, I \subseteq Nat, I # {}
  PROVE  Min(I) \in I /\ \A j \in I : Min(I) <= j
  <1>1. PICK i \in I : \A j \in I : ~ (<<j, i>> \in Less)
    BY ONLY LessWellFounded, WFMin, I \subseteq Nat, I # {}
  <1>2. ASSUME NEW j \in I
        PROVE  i <= j
    <2>1. j \in Nat /\ i \in Nat
      OBVIOUS
    <2>2. ~(j < i)
      BY <1>1, <2>1 DEF Less
    <2> QED BY <2>1, <2>2
  <1> QED BY <1>2 DEF Min

\* A bounded one has a greatest one.
LEMMA MaxNat ==
  ASSUME NEW n \in Nat, NEW I, I \subseteq 0..n, I # {}
  PROVE  Max(I) \in I /\ \A j \in I : Max(I) >= j
  <1> DEFINE J == {n - i : i \in I}
  <1>1. \A i \in I : n - i \in Nat
    OBVIOUS
  <1>2. J \subseteq Nat /\ J # {}
    BY <1>1
  <1>3. Min(J) \in J /\ \A j \in J : Min(J) <= j
    <2> HIDE DEF J
    <2> QED BY <1>2, MinNat
  <1>4. PICK i \in I : Min(J) = n - i
    BY <1>3
  <1>5. ASSUME NEW j \in I
        PROVE  i >= j
    <2>1. n - i <= n - j
      BY <1>3, <1>4
    <2> QED BY <2>1
  <1> QED BY <1>5 DEF Max

-----------------------------------------------------------------------------
(* Lemmas on access units.                                                 *)

\* Access units are sequences, of at least one NAL unit.
LEMMA AccessUnitType ==
  ASSUME NEW au \in AccessUnits
  PROVE  au \in Seq(NAL) /\ Len(au) \in Nat \ {0}
  <1>1. PICK n \in 1..3 : au \in [1..n -> NAL]
    BY DEF AccessUnits
  <1>2. au \in Seq(NAL) /\ Len(au) = n
    BY <1>1
  <1> QED BY <1>2

\* A parameter set has a version.
LEMMA NALVersion ==
  ASSUME NEW n \in NAL, n.type \in {"sps", "pps"}
  PROVE  n.v \in Versions
  BY DEF NAL

\* The newest set of a type, by its position.
LEMMA NewestAt ==
  ASSUME NEW au \in Seq(NAL), NEW t, NEW i \in DOMAIN au, au[i].type = t,
         \A k \in DOMAIN au : au[k].type = t => k <= i
  PROVE  Newest(au, t) = au[i].v
  <1> DEFINE I == Positions(au, t)
  <1>1. i \in I /\ I \subseteq 0..Len(au) /\ \A k \in I : k <= i
    BY DEF Positions
  <1>2. Max(I) \in I /\ Max(I) >= i
    <2> HIDE DEF I
    <2> QED BY <1>1, MaxNat
  <1>3. Max(I) = i
    <2> HIDE DEF I
    <2> QED BY <1>1, <1>2
  <1> QED BY <1>3 DEF Newest

\* There is such a position.
LEMMA NewestExists ==
  ASSUME NEW au \in Seq(NAL), NEW t, Has(au, t)
  PROVE  \E i \in DOMAIN au : /\ au[i].type = t /\ Newest(au, t) = au[i].v
                              /\ \A k \in DOMAIN au : au[k].type = t => k <= i
  <1> DEFINE I == Positions(au, t)
  <1>1. I # {} /\ I \subseteq 0..Len(au) /\ Len(au) \in Nat
    BY DEF Positions, Has
  <1>2. Max(I) \in I /\ \A k \in I : Max(I) >= k
    <2> HIDE DEF I
    <2> QED BY <1>1, MaxNat
  <1>3. \A k \in I : k <= Max(I)
    <2>1. I \subseteq Int
      BY <1>1
    <2> QED BY <1>2, <2>1
  <1> QED BY <1>2, <1>3 DEF Newest, Positions

\* So it is a version.
LEMMA NewestType ==
  ASSUME NEW au \in Seq(NAL), NEW t \in {"sps", "pps"}, Has(au, t)
  PROVE  Newest(au, t) \in Versions
  BY NewestExists, NALVersion

\* What is put in front does not hide what an access unit has.
LEMMA NewestConcat ==
  ASSUME NEW p \in Seq(NAL), NEW q \in Seq(NAL), NEW t
  PROVE  /\ Has(p \o q, t) <=> Has(p, t) \/ Has(q, t)
         /\ Has(q, t) => Newest(p \o q, t) = Newest(q, t)
         /\ ~Has(q, t) /\ Has(p, t) => Newest(p \o q, t) = Newest(p, t)
  <1> DEFINE r == p \o q
  <1>1. /\ r \in Seq(NAL) /\ DOMAIN r = 1..Len(p) + Len(q)
        /\ DOMAIN p = 1..Len(p) /\ DOMAIN q = 1..Len(q)
        /\ Len(p) \in Nat /\ Len(q) \in Nat
        /\ \A i \in DOMAIN p : i \in DOMAIN r /\ r[i] = p[i]
        /\ \A i \in DOMAIN q : i + Len(p) \in DOMAIN r /\ r[i + Len(p)] = q[i]
    OBVIOUS
  <1>2. \A i \in DOMAIN r : i \in DOMAIN p \/ (i - Len(p) \in DOMAIN q
                                               /\ r[i] = q[i - Len(p)])
    OBVIOUS
  <1> HIDE DEF r
  <1>3. Has(r, t) <=> Has(p, t) \/ Has(q, t)
    BY <1>1, <1>2 DEF Has
  <1>4. ASSUME Has(q, t)
        PROVE  Newest(r, t) = Newest(q, t)
    <2>1. PICK i \in DOMAIN q :
            /\ q[i].type = t /\ Newest(q, t) = q[i].v
            /\ \A k \in DOMAIN q : q[k].type = t => k <= i
      BY <1>4, NewestExists
    <2>2. \A k \in DOMAIN r : r[k].type = t => k <= i + Len(p)
      BY <1>1, <1>2, <2>1
    <2>3. /\ i + Len(p) \in DOMAIN r /\ r[i + Len(p)].type = t
          /\ r[i + Len(p)].v = q[i].v
      BY <1>1, <2>1
    <2>4. Newest(r, t) = r[i + Len(p)].v
      BY ONLY <1>1, <2>2, <2>3, NewestAt
    <2> QED BY <2>1, <2>3, <2>4
  <1>5. ASSUME ~Has(q, t), Has(p, t)
        PROVE  Newest(r, t) = Newest(p, t)
    <2>1. PICK i \in DOMAIN p :
            /\ p[i].type = t /\ Newest(p, t) = p[i].v
            /\ \A k \in DOMAIN p : p[k].type = t => k <= i
      BY <1>5, NewestExists
    <2>2. \A k \in DOMAIN r : r[k].type = t => k \in DOMAIN p
      BY <1>2, <1>5 DEF Has
    <2>3. \A k \in DOMAIN r : r[k].type = t => k <= i
      BY <1>1, <2>1, <2>2
    <2>4. i \in DOMAIN r /\ r[i].type = t /\ r[i].v = p[i].v
      BY <1>1, <2>1
    <2>5. Newest(r, t) = r[i].v
      BY ONLY <1>1, <2>3, <2>4, NewestAt
    <2> QED BY <2>1, <2>4, <2>5
  <1> QED BY <1>3, <1>4, <1>5 DEF r

\* An IDR goes out with both sets, and they are the cached ones.
LEMMA Complete ==
  ASSUME NEW au \in AccessUnits, Has(au, "idr"),
         NEW s \in Versions, NEW p \in Versions,
         Has(au, "sps") => s = Newest(au, "sps"),
         Has(au, "pps") => p = Newest(au, "pps")
  PROVE  LET sent == Prefix(au, s, p) \o au
         IN  /\ sent \in Seq(NAL) /\ Has(sent, "idr")
             /\ Has(sent, "sps") /\ Newest(sent, "sps") = s
             /\ Has(sent, "pps") /\ Newest(sent, "pps") = p
  <1> DEFINE S == [type |-> "sps", v |-> s]
             P == [type |-> "pps", v |-> p]
             pre == Prefix(au, s, p)
  <1>1. au \in Seq(NAL)
    BY AccessUnitType
  <1>2. S \in NAL /\ P \in NAL
    BY DEF NAL
  <1>3. pre = (IF Has(au, "sps") THEN <<>> ELSE <<S>>)
              \o (IF Has(au, "pps") THEN <<>> ELSE <<P>>)
    BY DEF Prefix, Missing
  <1>4. /\ Has(au, "sps") /\ Has(au, "pps") => pre = <<>>
        /\ ~Has(au, "sps") /\ Has(au, "pps") => pre = <<S>>
        /\ Has(au, "sps") /\ ~Has(au, "pps") => pre = <<P>>
        /\ ~Has(au, "sps") /\ ~Has(au, "pps") => pre = <<S, P>>
    <2>1. <<>> \o <<>> = <<>> /\ <<S>> \o <<>> = <<S>>
      BY ONLY <1>2
    <2>2. <<>> \o <<P>> = <<P>>
      BY ONLY <1>2
    <2>3. <<S>> \o <<P>> = <<S, P>>
      <3> HIDE DEF pre, S, P
      <3> DEFINE r == <<S>> \o <<P>>
      <3>1. r \in Seq(NAL) /\ Len(r) = 2 /\ r[1] = S /\ r[2] = P
        BY ONLY <1>2
      <3>2. /\ <<S, P>> \in Seq(NAL) /\ Len(<<S, P>>) = 2
            /\ <<S, P>>[1] = S /\ <<S, P>>[2] = P
        BY ONLY <1>2
      <3>3. \A i \in 1..Len(r) : r[i] = <<S, P>>[i]
        BY ONLY <3>1, <3>2
      <3> HIDE DEF r
      <3>4. r = <<S, P>>
        BY ONLY <3>1, <3>2, <3>3, SeqEqual
      <3> QED BY <3>4 DEF r
    <2> HIDE DEF pre, S, P
    <2> QED BY <1>3, <2>1, <2>2, <2>3
  <1>5. pre \in Seq(NAL)
    <2> HIDE DEF pre, S, P
    <2>1. <<>> \in Seq(NAL) /\ <<S>> \in Seq(NAL) /\ <<P>> \in Seq(NAL)
          /\ <<S, P>> \in Seq(NAL)
      BY <1>2
    <2> QED BY <1>4, <2>1
  <1>6. ASSUME ~Has(au, "sps")
        PROVE  Has(pre, "sps") /\ Newest(pre, "sps") = s
    <2>1. /\ 1 \in DOMAIN pre /\ pre[1].type = "sps" /\ pre[1].v = s
          /\ \A k \in DOMAIN pre : pre[k].type = "sps" => k <= 1
      <3>1. S.type = "sps" /\ S.v = s /\ P.type = "pps"
        OBVIOUS
      <3> HIDE DEF pre, S, P
      <3> QED BY <1>4, <1>6, <3>1
    <2> HIDE DEF pre
    <2> QED BY <1>5, <2>1, NewestAt DEF Has
  <1>7. ASSUME ~Has(au, "pps")
        PROVE  Has(pre, "pps") /\ Newest(pre, "pps") = p
    <2>1. /\ Len(pre) \in DOMAIN pre
          /\ pre[Len(pre)].type = "pps" /\ pre[Len(pre)].v = p
          /\ \A k \in DOMAIN pre : k <= Len(pre)
      <3>1. P.type = "pps" /\ P.v = p
        OBVIOUS
      <3> HIDE DEF pre, S, P
      <3>2. pre = <<P>> \/ pre = <<S, P>>
        BY <1>4, <1>7
      <3>3. CASE pre = <<P>>
        BY <3>1, <3>3
      <3>4. CASE pre = <<S, P>>
        BY <3>1, <3>4
      <3> QED BY <3>2, <3>3, <3>4
    <2> HIDE DEF pre
    <2> QED BY <1>5, <2>1, NewestAt DEF Has
  <1> HIDE DEF pre
  <1>8. pre \o au \in Seq(NAL)
    BY <1>1, <1>5
  <1>9. /\ Has(pre \o au, "idr") /\ Has(pre \o au, "sps") /\ Has(pre \o au, "pps")
        /\ Newest(pre \o au, "sps") = s /\ Newest(pre \o au, "pps") = p
    BY <1>1, <1>5, <1>6, <1>7, NewestConcat
  <1> QED BY <1>8, <1>9 DEF pre

\* The node that is selected matches.
LEMMA NodeMatches ==
  ASSUME TypeOK, Matching # {}
  PROVE  IntelRenderNode \in Matching
  <1>1. Matching \subseteq Nat
    BY EncoderAssumption DEF EncoderAssumption, TypeOK, Matching
  <1> HIDE DEF Matching
  <1> QED BY <1>1, MinNat DEF IntelRenderNode

\* What the encoder caches, and a decoder remembers, are versions.
LEMMA SetTypes ==
  ASSUME NEW au \in Seq(NAL)
  PROVE  /\ \A t \in {"sps", "pps"}, c \in Versions \cup {0} :
              Cached(au, t, c) \in Versions \cup {0}
         /\ \A sets \in Sets : Decode(sets, au) \in Sets
  BY NewestType DEF Cached, Decode, Sets

\* Timestamps advance.
LEMMA Advances ==
  ASSUME TypeOK, NEW t \in Times
  PROVE  Adjusted(t) \in Nat /\ Adjusted(t) > lastPts
  BY EncoderAssumption DEF EncoderAssumption, TypeOK, Adjusted

\* An access unit that is accepted, framed and wanted is no reason to refuse
\* the stream, and leaves the receiver with the sets the encoder has cached.
LEMMA Delivered ==
  ASSUME TypeOK, InvStream, pc = "ready",
         NEW t \in Times, NEW au \in AccessUnits, NEW s, NEW p,
         s = Cached(au, "sps", sps), p = Cached(au, "pps", pps),
         Acceptable(au, s, p),
         Framable(Prefix(au, s, p) \o au, Adjusted(t)),
         Wanted(Has(au, "idr")),
         Receive(Prefix(au, s, p) \o au, Adjusted(t))
  PROVE  /\ rx' = "joined" /\ UNCHANGED error
         /\ rxPts' = Adjusted(t) /\ joined' = [sps |-> s, pps |-> p]
  <1> DEFINE sent == Prefix(au, s, p) \o au
             before == IF rx = "waiting" THEN NoSets ELSE joined
  <1>1. au \in Seq(NAL)
    BY AccessUnitType
  <1>2. s \in Versions \cup {0} /\ p \in Versions \cup {0}
    BY <1>1, SetTypes DEF TypeOK
  <1>3. /\ sent \in Seq(NAL) /\ Decode(before, sent) = [sps |-> s, pps |-> p]
        /\ rx = "waiting" => /\ Has(sent, "idr") /\ Has(sent, "sps")
                             /\ Has(sent, "pps")
    <2>1. CASE Has(au, "idr")
      <3>1. s \in Versions /\ p \in Versions
        BY <1>2, <2>1 DEF Acceptable
      <3>2. /\ Has(au, "sps") => s = Newest(au, "sps")
            /\ Has(au, "pps") => p = Newest(au, "pps")
        BY DEF Cached
      <3>3. /\ sent \in Seq(NAL) /\ Has(sent, "idr")
            /\ Has(sent, "sps") /\ Newest(sent, "sps") = s
            /\ Has(sent, "pps") /\ Newest(sent, "pps") = p
        BY <2>1, <3>1, <3>2, Complete
      <3> HIDE DEF sent, before
      <3> QED BY <3>3 DEF Decode
    <2>2. CASE ~Has(au, "idr")
      <3>1. rx = "joined" /\ before = [sps |-> sps, pps |-> pps]
        BY <2>2 DEF Wanted, InvStream
      <3>2. sent = au
        BY <1>1, <2>2 DEF Prefix
      <3> HIDE DEF sent, before
      <3> QED BY <1>1, <3>1, <3>2 DEF Decode, Cached
    <2> QED BY <2>1, <2>2
  <1>4. HeaderValid(sent)
    <2>1. sent # <<>> /\ Len(sent) <= MaxPayload
      BY DEF Framable
    <2>2. Len(sent) \in Nat /\ Len(sent) # 0
      <3> HIDE DEF sent
      <3> QED BY <1>3, <2>1, EmptySeq
    <2> HIDE DEF sent
    <2> QED BY <2>1, <2>2, EncoderAssumption DEF EncoderAssumption, HeaderValid
  <1>5. Adjusted(t) > (IF rx = "waiting" THEN -1 ELSE rxPts)
    <2>1. Adjusted(t) \in Nat /\ Adjusted(t) > lastPts
      BY Advances
    <2>2. rx = "waiting" \/ (rx = "joined" /\ rxPts <= lastPts)
      BY DEF Wanted, InvStream
    <2> HIDE DEF Adjusted
    <2> QED BY <2>1, <2>2 DEF TypeOK
  <1>6. Receive(sent, Adjusted(t))
    OBVIOUS
  <1> HIDE DEF sent
  <1> QED BY <1>3, <1>4, <1>5, <1>6 DEF Receive

\* A call of encode() keeps types and stream, whatever becomes of it.
LEMMA EncodeStep ==
  ASSUME TypeOK, InvStream, Encode
  PROVE  TypeOK' /\ InvStream'
  <1>1. PICK t \in Times, force \in BOOLEAN : \E au \in Emits(force) :
         LET s == Cached(au, "sps", sps)
             p == Cached(au, "pps", pps)
             sent == Prefix(au, s, p) \o au
             key == Has(au, "idr")
             fails == \/ ~Acceptable(au, s, p)
                      \/ Wanted(key) /\ ~Framable(sent, Adjusted(t))
         IN  /\ lastPts' = Adjusted(t) /\ lastPts' <= MaxPts
             /\ sps' = s /\ pps' = p /\ whole' = Decode(whole, au)
             /\ asked' = (asked \/ (force /\ rx # "absent"))
             /\ pc' = IF fails THEN "failed" ELSE "ready"
             /\ IF Wanted(key) /\ ~fails
                THEN Receive(sent, lastPts')
                ELSE UNCHANGED <<rx, joined, rxPts, error>>
    BY DEF Encode
  <1>2. PICK au \in Emits(force) :
         LET s == Cached(au, "sps", sps)
             p == Cached(au, "pps", pps)
             sent == Prefix(au, s, p) \o au
             key == Has(au, "idr")
             fails == \/ ~Acceptable(au, s, p)
                      \/ Wanted(key) /\ ~Framable(sent, Adjusted(t))
         IN  /\ lastPts' = Adjusted(t) /\ lastPts' <= MaxPts
             /\ sps' = s /\ pps' = p /\ whole' = Decode(whole, au)
             /\ asked' = (asked \/ (force /\ rx # "absent"))
             /\ pc' = IF fails THEN "failed" ELSE "ready"
             /\ IF Wanted(key) /\ ~fails
                THEN Receive(sent, lastPts')
                ELSE UNCHANGED <<rx, joined, rxPts, error>>
    BY <1>1
  <1> DEFINE s == Cached(au, "sps", sps)
             p == Cached(au, "pps", pps)
             sent == Prefix(au, s, p) \o au
             fails == \/ ~Acceptable(au, s, p)
                      \/ Wanted(Has(au, "idr")) /\ ~Framable(sent, Adjusted(t))
             received == Wanted(Has(au, "idr")) /\ ~fails
  <1>3. /\ pc = "ready" /\ UNCHANGED <<config, choice>>
        /\ lastPts' = Adjusted(t) /\ lastPts' <= MaxPts
        /\ sps' = s /\ pps' = p /\ whole' = Decode(whole, au)
        /\ asked' = (asked \/ (force /\ rx # "absent"))
        /\ pc' = IF fails THEN "failed" ELSE "ready"
        /\ received => Receive(sent, Adjusted(t))
        /\ ~received => UNCHANGED <<rx, joined, rxPts, error>>
    BY <1>2 DEF Encode
  <1>4. au \in AccessUnits /\ (force => Has(au, "idr")) /\ au \in Seq(NAL)
    BY AccessUnitType DEF Emits
  <1>5. s \in Versions \cup {0} /\ p \in Versions \cup {0}
    BY <1>4, SetTypes DEF TypeOK
  <1>6. received => /\ rx' = "joined" /\ UNCHANGED error
                    /\ rxPts' = Adjusted(t) /\ joined' = [sps |-> s, pps |-> p]
    <2> SUFFICES ASSUME received
                 PROVE  /\ rx' = "joined" /\ UNCHANGED error
                        /\ rxPts' = Adjusted(t)
                        /\ joined' = [sps |-> s, pps |-> p]
      OBVIOUS
    <2>1. /\ Acceptable(au, s, p) /\ Wanted(Has(au, "idr"))
          /\ Framable(Prefix(au, s, p) \o au, Adjusted(t))
          /\ Receive(Prefix(au, s, p) \o au, Adjusted(t))
      BY <1>3
    <2> QED BY <1>3, <1>4, <2>1, Delivered
  <1>7. whole' = [sps |-> s, pps |-> p] /\ whole' \in Sets
    BY <1>3, <1>4, <1>5 DEF InvStream, Decode, Cached, Sets
  <1>8. Adjusted(t) \in Nat /\ Adjusted(t) > lastPts
    BY Advances
  <1> HIDE DEF received, sent, s, p
  <1>9. TypeOK'
    <2>1. lastPts' \in -1..MaxPts
      BY <1>3, <1>8, EncoderAssumption DEF EncoderAssumption
    <2>2. pc' \in {"ready", "failed"} /\ asked' \in BOOLEAN
      BY <1>3 DEF TypeOK
    <2>3. /\ joined' \in Sets /\ rxPts' \in -1..MaxPts
          /\ rx' \in {"absent", "waiting", "joined"}
          /\ error' \in {"none", "missing", "ended", "refused"}
      BY <1>3, <1>6, <1>7, <2>1 DEF TypeOK
    <2> QED BY <1>3, <1>5, <1>7, <2>1, <2>2, <2>3 DEF TypeOK, config, choice
  <1>10. InvStream'
    <2>1. /\ whole' = [sps |-> sps', pps |-> pps'] /\ error' # "refused"
          /\ pc' # "init"
      BY <1>3, <1>6, <1>7 DEF InvStream
    <2>2. rx' = "joined" => rxPts' <= lastPts'
      BY <1>3, <1>6, <1>8 DEF InvStream, TypeOK
    <2>3. CASE received
      BY <1>3, <1>6, <1>7, <2>1, <2>2, <2>3 DEF InvStream
    <2>4. CASE ~received /\ pc' = "ready"
      <3>1. ~Wanted(Has(au, "idr")) /\ UNCHANGED <<rx, joined, rxPts, error>>
        BY <1>3, <2>4 DEF received
      <3>2. rx # "joined" /\ (rx = "waiting" => ~Has(au, "idr"))
        BY <3>1 DEF Wanted
      <3>3. rx' = "waiting" => ~asked'
        BY <1>3, <1>4, <3>1, <3>2 DEF InvStream
      <3> QED BY <2>1, <2>2, <3>1, <3>2, <3>3 DEF InvStream
    <2>5. CASE ~received /\ pc' # "ready"
      BY <2>1, <2>2, <2>5 DEF InvStream
    <2> QED BY <2>3, <2>4, <2>5
  <1> QED BY <1>9, <1>10

-----------------------------------------------------------------------------
(* The steps.                                                              *)

\* Trying a candidate takes it off the list.
LEMMA TryType ==
  ASSUME TypeOK, InvChoice, TryNext
  PROVE  /\ selected' \in {"intel-vaapi", "nvenc"}
         /\ todo' \in Seq({"intel-vaapi", "nvenc"})
         /\ selected' = "nvenc" \/ (\E i \in DOMAIN todo' : todo'[i] = "nvenc")
              => NvencAllowed
  <1>1. todo \in Seq({"intel-vaapi", "nvenc"}) /\ todo # <<>>
    BY DEF TypeOK, TryNext
  <1>2. /\ Head(todo) \in {"intel-vaapi", "nvenc"} /\ Head(todo) = todo[1]
        /\ 1 \in DOMAIN todo
        /\ Tail(todo) \in Seq({"intel-vaapi", "nvenc"})
    BY <1>1
  <1>3. \A i \in DOMAIN Tail(todo) : i + 1 \in DOMAIN todo
                                     /\ Tail(todo)[i] = todo[i + 1]
    BY <1>1
  <1> QED BY <1>2, <1>3 DEF TryNext, InvChoice

\* Every step keeps the types.
LEMMA TypeStep ==
  TypeOK /\ InvChoice /\ InvStream /\ [Next]_vars => TypeOK'
  <1> SUFFICES ASSUME TypeOK, InvChoice, InvStream, [Next]_vars
               PROVE  TypeOK'
    OBVIOUS
  <1> USE DEF TypeOK, config, choice, encoder, receiver
  <1>1. CASE InitializeSucceeds
    <2>1. device' \in Gpus \cup {0}
      BY <1>1, NodeMatches DEF InitializeSucceeds, Matching
    <2>2. selected' # "none" /\ intel' \in BOOLEAN
      BY <1>1, TryType DEF InitializeSucceeds
    <2> QED BY <1>1, <2>1, <2>2, TryType DEF InitializeSucceeds
  <1>2. CASE InitializeFails
    <2>1. device' \in Gpus \cup {0}
      BY <1>2, NodeMatches DEF InitializeFails, Matching
    <2>2. intel' \in BOOLEAN
      BY <1>2 DEF InitializeFails, ConverterAfterFailure
    <2> QED BY <1>2, <2>1, <2>2, TryType DEF InitializeFails, TryNext
  <1>3. CASE NoCandidateLeft
    BY <1>3 DEF NoCandidateLeft
  <1>4. CASE EncodeFails
    BY <1>4 DEF EncodeFails
  <1>5. CASE Flush
    BY <1>5 DEF Flush
  <1>6. CASE Connect
    <2>1. NoSets \in Sets /\ -1 \in -1..MaxPts
      BY EncoderAssumption DEF EncoderAssumption, NoSets, Sets
    <2> QED BY <1>6, <2>1 DEF Connect
  <1>7. CASE Leave
    <2>1. NoSets \in Sets /\ -1 \in -1..MaxPts
      BY EncoderAssumption DEF EncoderAssumption, NoSets, Sets
    <2> QED BY <1>7, <2>1 DEF Leave
  <1>8. CASE Encode
    BY <1>8, EncodeStep
  <1>9. CASE UNCHANGED vars
    BY <1>9 DEF vars
  <1> QED BY <1>1, <1>2, <1>3, <1>4, <1>5, <1>6, <1>7, <1>8, <1>9
         DEF Next

\* A failure leaves no converter, and NVENC stays excluded.
LEMMA ChoiceStep ==
  TypeOK /\ InvChoice /\ [Next]_vars => InvChoice'
  <1> SUFFICES ASSUME TypeOK, InvChoice, [Next]_vars
               PROVE  InvChoice'
    OBVIOUS
  <1> USE DEF InvChoice, NvencAllowed, Matching, config, choice, encoder, receiver
  <1>1. CASE InitializeSucceeds
    <2>1. selected' \in {"intel-vaapi", "nvenc"} /\ ~intel
      BY <1>1, TryType DEF InitializeSucceeds, TryNext
    <2>2. selected' = "nvenc" \/ (\E i \in DOMAIN todo' : todo'[i] = "nvenc")
            => NvencAllowed'
      BY <1>1, TryType DEF InitializeSucceeds
    <2>3. CASE selected' = "nvenc"
      BY <1>1, <2>1, <2>2, <2>3 DEF InitializeSucceeds
    <2>4. CASE selected' = "intel-vaapi"
      <3>1. IntelRenderNode \in Matching
        BY <1>1, <2>4, NodeMatches DEF InitializeSucceeds
      <3> HIDE DEF Matching
      <3>2. device' \in Matching' /\ intel'
        BY <1>1, <2>4, <3>1 DEF InitializeSucceeds, Matching
      <3> QED BY <1>1, <2>2, <2>4, <3>2 DEF InitializeSucceeds
    <2> QED BY <2>1, <2>3, <2>4
  <1>2. CASE InitializeFails
    <2>1. selected' = "nvenc" \/ (\E i \in DOMAIN todo' : todo'[i] = "nvenc")
            => NvencAllowed'
      BY <1>2, TryType DEF InitializeFails
    <2>2. ~intel' /\ pc' = "init"
      BY <1>2 DEF InitializeFails, ConverterAfterFailure, TryNext
    <2> QED BY <2>1, <2>2
  <1>3. CASE NoCandidateLeft
    BY <1>3 DEF NoCandidateLeft
  <1>4. CASE EncodeFails
    BY <1>4 DEF EncodeFails
  <1>5. CASE Flush
    BY <1>5 DEF Flush
  <1>6. CASE Connect
    BY <1>6 DEF Connect
  <1>7. CASE Leave
    BY <1>7 DEF Leave
  <1>8. CASE Encode
    <2>1. pc' \in {"ready", "failed"} /\ pc = "ready" /\ UNCHANGED <<config, choice>>
      BY <1>8 DEF Encode
    <2> QED BY <2>1
  <1>9. CASE UNCHANGED vars
    BY <1>9 DEF vars
  <1> QED BY <1>1, <1>2, <1>3, <1>4, <1>5, <1>6, <1>7, <1>8, <1>9
         DEF Next

\* A receiver that comes or goes does not disturb the stream.
LEMMA StreamStep ==
  TypeOK /\ InvStream /\ [Next]_vars => InvStream'
  <1> SUFFICES ASSUME TypeOK, InvStream, [Next]_vars
               PROVE  InvStream'
    OBVIOUS
  <1> USE DEF InvStream, config, choice, encoder, receiver
  <1>1. CASE InitializeSucceeds
    BY <1>1 DEF InitializeSucceeds, TryNext
  <1>2. CASE InitializeFails
    BY <1>2 DEF InitializeFails, TryNext
  <1>3. CASE NoCandidateLeft
    BY <1>3 DEF NoCandidateLeft
  <1>4. CASE EncodeFails
    BY <1>4 DEF EncodeFails
  <1>5. CASE Flush
    BY <1>5 DEF Flush
  <1>6. CASE Connect
    BY <1>6 DEF Connect
  <1>7. CASE Leave
    BY <1>7 DEF Leave
  <1>8. CASE Encode
    BY <1>8, EncodeStep
  <1>9. CASE UNCHANGED vars
    BY <1>9 DEF vars
  <1> QED BY <1>1, <1>2, <1>3, <1>4, <1>5, <1>6, <1>7, <1>8, <1>9
         DEF Next

-----------------------------------------------------------------------------
(* The invariant, and what follows from it.                                *)

\* Before the first candidate is tried.
LEMMA InitIInv == Init => IInv
  <1> SUFFICES ASSUME Init PROVE IInv
    OBVIOUS
  <1> USE EncoderAssumption DEF EncoderAssumption, Init
  <1>1. /\ todo \in Seq({"intel-vaapi", "nvenc"})
        /\ (\E i \in DOMAIN todo : todo[i] = "nvenc") => NvencAllowed
    <2>1. \/ todo = <<>> \/ todo = <<"intel-vaapi">>
          \/ todo = <<"nvenc">> /\ NvencAllowed
          \/ todo = <<"intel-vaapi", "nvenc">> /\ NvencAllowed
      BY DEF Candidates, NvencAllowed, Backends
    <2>2. CASE todo = <<"intel-vaapi">>
      <3>1. DOMAIN todo = {1} /\ todo[1] = "intel-vaapi"
        BY <2>2
      <3> QED BY <2>2, <3>1
    <2>3. CASE todo = <<"nvenc">>
      BY <2>1, <2>3
    <2>4. CASE todo = <<"intel-vaapi", "nvenc">>
      BY <2>1, <2>4
    <2>5. CASE todo = <<>>
      BY <2>5
    <2> QED BY <2>1, <2>2, <2>3, <2>4, <2>5
  <1>2. -1 \in -1..MaxPts /\ NoSets \in Sets
    BY DEF NoSets, Sets
  <1>3. TypeOK
    BY <1>1, <1>2 DEF TypeOK
  <1>4. InvChoice
    BY <1>1 DEF InvChoice
  <1>5. InvStream
    BY DEF InvStream, NoSets
  <1> QED BY <1>3, <1>4, <1>5 DEF IInv

\* All of the above holds in every state.
THEOREM Invariant == Spec => []IInv
  <1>1. IInv /\ [Next]_vars => IInv'
    BY TypeStep, ChoiceStep, StreamStep DEF IInv
  <1> QED BY <1>1, InitIInv, PTL DEF Spec

\* Type correctness: an encoder that is ready has a backend that exists.
THEOREM TypeCorrect == Spec => []TypeOK
  <1>1. IInv => TypeOK
    BY DEF IInv
  <1> QED BY <1>1, Invariant, PTL

\* With any GPUs, and whatever fails first, NVENC encodes only where it may, and
\* capture gets a converter exactly if an Intel encoder uses it, on that GPU.
THEOREM NoSilentSubstitution == Spec => []RightBackend
  <1>1. IInv => RightBackend
    BY DEF IInv, InvChoice, NvencAllowed, Matching, RightBackend
  <1> QED BY <1>1, Invariant, PTL

\* Whatever sets the hardware emits and whenever a receiver joins, it is given
\* no reason to refuse and decodes with the sets of one that has read all.
THEOREM JoinsAtAnyKeyframe == Spec => []JoinsAnywhere
  <1>1. IInv => JoinsAnywhere
    BY DEF IInv, InvStream, JoinsAnywhere
  <1> QED BY <1>1, Invariant, PTL
=============================================================================
