----------------------------- MODULE VideoEncoder ----------------------------
(***************************************************************************)
(* The video encoder of one stream (host/encoder/video_encoder.cpp with    *)
(* devices.h, nvenc.cpp and annexb.h): the choice of a backend and a GPU,  *)
(* the timestamps, and the parameter sets that prepareAnnexB() puts in     *)
(* front of keyframes; with framePacket() and the receiver that joins the  *)
(* stream at some keyframe and checks what it gets (tools/receiver.py).    *)
(*                                                                         *)
(* An access unit is the sequence of its NAL units, and its size is their  *)
(* number; a parameter set has a version, 0 stands for none.  The          *)
(* transport starts a receiver at an access unit flagged as a keyframe and *)
(* leaves no gap after it (see Transport).                                 *)
(***************************************************************************)
EXTENDS Integers, Sequences, FiniteSetsExt

CONSTANTS
    Versions,          \* of a parameter set
    Times,             \* presentation times a caller supplies
    Gpus,              \* render nodes, in the order of their paths
    MaxPayload,        \* largest access unit that is framed (8 MiB)
    MaxPts             \* bound: timestamps given out

ASSUME EncoderAssumption ==
    /\ Versions \subseteq Nat \ {0} /\ Times \subseteq Nat
    /\ Gpus \subseteq Nat \ {0} /\ MaxPayload \in Nat /\ MaxPts \in Nat

VARIABLES
    \* the configuration: backend, --allow-nvenc-fallback, render node (0: any),
    \* and the render nodes whose vendor is Intel
    backend, fallback, renderNode, intelGpus,
    \* the constructor: candidates left, the one selected, its converter, its
    \* device (0 for CUDA's)
    todo, selected, intel, device,
    \* where the encoder is; lastPts; the parameter sets it has cached
    pc, lastPts, sps, pps,
    \* a decoder that reads all the hardware emits
    whole,
    \* a receiver: its connection, its decoder, last_pts_us, its error; a
    \* keyframe was forced since it connected
    rx, joined, rxPts, error, asked

config  == <<backend, fallback, renderNode, intelGpus>>
choice  == <<todo, selected, intel, device>>
encoder == <<pc, lastPts, sps, pps, whole>>
receiver == <<rx, joined, rxPts, error, asked>>
vars == <<config, choice, encoder, receiver>>

Backends == {"auto", "intel-vaapi", "nvenc", "intel-qsv"}
Sets == [sps : Versions \cup {0}, pps : Versions \cup {0}]
NoSets == [sps |-> 0, pps |-> 0]

NAL == [type : {"sps", "pps"}, v : Versions]
       \cup [type : {"idr", "slice", "other"}, v : {0}]
Has(au, t) == \E i \in DOMAIN au : au[i].type = t

\* The version of the last parameter set of a type.
Positions(au, t) == {i \in DOMAIN au : au[i].type = t}
Newest(au, t) == au[Max(Positions(au, t))].v

\* What the hardware may emit: parameter sets come before pictures.
AccessUnits ==
    {au \in UNION {[1..n -> NAL] : n \in 1..3} :
        \A i, j \in DOMAIN au :
            au[i].type \in {"idr", "slice"} /\ au[j].type \in {"sps", "pps"} => j < i}

TypeOK ==
    /\ backend \in Backends /\ fallback \in BOOLEAN
    /\ renderNode \in Gpus \cup {0} /\ intelGpus \subseteq Gpus
    /\ todo \in Seq({"intel-vaapi", "nvenc"})
    /\ selected \in {"none", "intel-vaapi", "nvenc"} /\ intel \in BOOLEAN
    /\ device \in Gpus \cup {0}
    /\ pc \in {"init", "ready", "flushed", "failed"}
    /\ lastPts \in -1..MaxPts
    /\ sps \in Versions \cup {0} /\ pps \in Versions \cup {0}
    /\ whole \in Sets /\ joined \in Sets
    /\ rx \in {"absent", "waiting", "joined"} /\ rxPts \in -1..MaxPts
    /\ error \in {"none", "missing", "ended", "refused"} /\ asked \in BOOLEAN
    /\ pc = "ready" => selected # "none"

-----------------------------------------------------------------------------
(* The conditions the code decides by, and bugs (M_) they could have had.  *)

\* encoderCandidates(); intel-qsv throws.
M_TakesAnyName(b, f) == IF b = "auto" THEN <<"intel-vaapi", "nvenc">> ELSE <<b>>
Candidates(b, f) ==
    CASE b = "auto" /\ f  -> <<"intel-vaapi", "nvenc">>
      [] b = "auto" /\ ~f -> <<"intel-vaapi">>
      [] b = "intel-qsv"  -> <<>>
      [] OTHER            -> <<b>>

\* intelRenderNode(): the first that is Intel's and, if one is asked for, that.
Matching == {g \in intelGpus : renderNode \in {0, g}}
IntelRenderNode == Min(Matching)

\* After a failure the converter goes, also one that was made already.
M_KeepsConverter(made) == made
ConverterAfterFailure(made) == FALSE

\* encode(): a time that does not advance is moved.
Adjusted(t) == IF t <= lastPts THEN lastPts + 1 ELSE t

\* prepareAnnexB(): the newest set of a type is cached.
M_KeepsFirst(au, t, cached) ==
    IF cached # 0 \/ ~Has(au, t) THEN cached
    ELSE au[Min(Positions(au, t))].v
Cached(au, t, cached) ==
    IF Has(au, t) THEN Newest(au, t) ELSE cached

\* and what an IDR lacks is put in front of it.
Missing(au, t, v) == IF Has(au, t) THEN <<>> ELSE <<[type |-> t, v |-> v]>>
Prefix(au, s, p) ==
    IF Has(au, "idr") THEN Missing(au, "sps", s) \o Missing(au, "pps", p) ELSE <<>>

\* framePacket(), and parse_header() at the other end.
Framable(au, pts) == pts >= 0 /\ au # <<>> /\ Len(au) <= MaxPayload
HeaderValid(au) == Len(au) \in 1..MaxPayload

\* "forced-idr" makes NVENC answer a forced picture with an IDR, and without
\* it with a picture no receiver can start at; VAAPI has it in idr_interval.
Emits(force) == {au \in AccessUnits : force => Has(au, "idr")}

-----------------------------------------------------------------------------
(* The constructor.                                                        *)

Init ==
    /\ backend \in Backends /\ fallback \in BOOLEAN
    /\ renderNode \in Gpus \cup {0} /\ intelGpus \in SUBSET Gpus
    /\ todo = Candidates(backend, fallback)
    /\ selected = "none" /\ intel = FALSE /\ device = 0
    /\ pc = "init" /\ lastPts = -1 /\ sps = 0 /\ pps = 0 /\ whole = NoSets
    /\ rx = "absent" /\ joined = NoSets /\ rxPts = -1 /\ error = "none"
    /\ asked = FALSE

TryNext ==
    /\ pc = "init" /\ todo # <<>>
    /\ selected' = Head(todo) /\ todo' = Tail(todo)

InitializeSucceeds ==
    /\ TryNext /\ pc' = "ready"
    /\ IF selected' = "nvenc"
       THEN device' = 0 /\ UNCHANGED intel
       ELSE Matching # {} /\ device' = IntelRenderNode /\ intel' = TRUE
    /\ UNCHANGED <<config, lastPts, sps, pps, whole, receiver>>

\* It may fail before or after the device was found and the converter made.
InitializeFails ==
    /\ TryNext
    /\ \E made \in {intel} \cup {selected' = "intel-vaapi" /\ Matching # {}} :
         intel' = ConverterAfterFailure(made)
    /\ device' = IF selected' = "nvenc" THEN 0
                 ELSE IF Matching = {} THEN device ELSE IntelRenderNode
    /\ UNCHANGED <<config, encoder, receiver>>

\* Its options may also be out of range, before anything is tried.
NoCandidateLeft ==
    /\ pc = "init" /\ (todo = <<>> \/ selected = "none")
    /\ pc' = "failed"
    /\ UNCHANGED <<config, choice, lastPts, sps, pps, whole, receiver>>

-----------------------------------------------------------------------------
(* encode(), drain(), prepareAnnexB().                                     *)

Decode(sets, au) ==
    [sps |-> IF Has(au, "sps") THEN Newest(au, "sps") ELSE sets.sps,
     pps |-> IF Has(au, "pps") THEN Newest(au, "pps") ELSE sets.pps]

\* main() of the receiver, for one access unit.
Receive(au, pts) ==
    LET begins == rx = "waiting"
        content == /\ HeaderValid(au)
                   /\ begins => Has(au, "idr") /\ Has(au, "sps") /\ Has(au, "pps")
                   /\ pts > (IF begins THEN -1 ELSE rxPts)
    IN  /\ IF content THEN rx' = "joined" /\ UNCHANGED error
                      ELSE rx' = "absent" /\ error' = "refused"
        /\ rxPts' = pts /\ joined' = Decode(IF begins THEN NoSets ELSE joined, au)

\* publish() of the transport frames only what the client waits for.
Wanted(key) == rx = "joined" \/ (rx = "waiting" /\ key)

\* A picture without its sets, or no picture, throws.
Acceptable(au, s, p) ==
    /\ Has(au, "idr") \/ Has(au, "slice")
    /\ Has(au, "idr") => s # 0 /\ p # 0

\* A frame that was not accepted ends the stream, in the encoder or publish().
Encode ==
    /\ pc = "ready" /\ lastPts < MaxPts
    /\ \E t \in Times, force \in BOOLEAN : \E au \in Emits(force) :
         LET s == Cached(au, "sps", sps)
             p == Cached(au, "pps", pps)
             sent == Prefix(au, s, p) \o au
             key == Has(au, "idr")
             fails == \/ ~Acceptable(au, s, p)
                      \/ Wanted(key) /\ ~Framable(sent, Adjusted(t))
         IN  /\ lastPts' = Adjusted(t) /\ lastPts' <= MaxPts
             /\ sps' = s /\ pps' = p /\ whole' = Decode(whole, au)
             /\ asked' = (asked \/ (force /\ rx # "absent"))
             /\ pc' = IF fails THEN "failed" ELSE "ready"
             /\ IF Wanted(key) /\ ~fails
                THEN Receive(sent, lastPts')
                ELSE UNCHANGED <<rx, joined, rxPts, error>>
    /\ UNCHANGED <<config, choice>>

\* Only a session with a converter hands out surfaces; sending may fail.
EncodeFails ==
    /\ pc = "ready" /\ pc' = "failed"
    /\ UNCHANGED <<config, choice, lastPts, sps, pps, whole, receiver>>

\* No packet is left in a hardware encoder without delay.
Flush ==
    /\ pc = "ready" /\ pc' \in {"flushed", "failed"}
    /\ UNCHANGED <<config, choice, lastPts, sps, pps, whole, receiver>>

-----------------------------------------------------------------------------
(* The receiver's connection.                                              *)

Connect ==
    /\ rx = "absent" /\ rx' = "waiting" /\ rxPts' = -1 /\ joined' = NoSets
    /\ error' = "none" /\ asked' = FALSE
    /\ UNCHANGED <<config, choice, encoder>>

\* Its time is up, or read_exact() finds the connection closed.
Leave ==
    /\ rx # "absent" /\ rx' = "absent" /\ rxPts' = -1 /\ joined' = NoSets
    /\ error' \in {"ended", IF rx = "waiting" THEN "missing" ELSE "none"}
    /\ UNCHANGED <<config, choice, encoder, asked>>

Next ==
    \/ InitializeSucceeds \/ InitializeFails \/ NoCandidateLeft
    \/ Encode \/ EncodeFails \/ Flush
    \/ Connect \/ Leave

Spec == Init /\ [][Next]_vars

-----------------------------------------------------------------------------
(* What the stream promises.                                               *)

\* "no silent substitution": NVENC encodes only if it was asked for, or was
\* allowed as the fallback of an Intel encoder that did not work; and the
\* converter that capture gets belongs to the encoder in use, on an Intel GPU
\* and the one that was asked for: NVENC never gets Intel surfaces, whatever
\* failed before it was chosen.
RightBackend ==
    /\ selected = "nvenc" => backend = "nvenc" \/ (backend = "auto" /\ fallback)
    /\ pc = "ready" =>
         /\ intel <=> selected = "intel-vaapi"
         /\ intel => device \in intelGpus /\ renderNode \in {0, device}
         /\ ~intel => device = 0

\* "every IDR sent on reconnect is independently decodable": whenever a
\* receiver joins, it has no reason to refuse what it gets, and what it shows it
\* decodes with the parameter sets that a decoder which has read all the
\* hardware ever emitted would use; and it has joined when a keyframe was
\* forced for it, unless that ended the stream.
JoinsAnywhere ==
    /\ error # "refused"
    /\ rx = "joined" /\ pc = "ready" => joined = whole
    /\ rx = "waiting" /\ pc = "ready" => ~asked
=============================================================================
