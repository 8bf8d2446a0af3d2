------------------------------ MODULE VideoSdp ------------------------------
(***************************************************************************)
(* The video section of a session description as src/modules/sdp and the   *)
(* peer connection rewrite it: the sources (SSRC) in the order of their    *)
(* lines, which of them carry an msid, and the ssrc-groups.  A source is a *)
(* number; numbers that generateSsrc draws are taken as never drawn before *)
(* (next is the first unused one), and none is a prefix of another, as     *)
(* findLines and removeGroupsWithSSRC compare text.                        *)
(*                                                                         *)
(* Operators only: LocalDescription has the state.                         *)
(***************************************************************************)
EXTENDS Naturals, Sequences, SequencesExt

CONSTANT Layers          \* simulcast streams (DEFAULT_NUM_OF_LAYERS, SIM_LAYER_RIDS)
ASSUME LayersAssumption == Layers \in Nat \ {0}

None == 0                \* no SSRC: undefined or null in the code

Bare(dir) == [dir |-> dir, ssrcs |-> <<>>, msid |-> {}, groups |-> <<>>]
Sends(m) == m.dir \in {"sendrecv", "sendonly"}
Sources(m) == Range(m.ssrcs)

Fid(p, r) == [sem |-> "FID", of |-> <<p, r>>]
Sim(s) == [sem |-> "SIM", of |-> s]
GroupsOf(m, sem) == SelectSeq(m.groups, LAMBDA g : g.sem = sem)

(* ---- the wrapper of a section (SdpTransformUtil) ----------------------- *)

RemoveSsrc(m, x) ==
    [m EXCEPT !.ssrcs = SelectSeq(@, LAMBDA s : s # x), !.msid = @ \ {x}]

AddSsrc(m, x, named) ==
    [m EXCEPT !.ssrcs = IF x \in Range(@) THEN @ ELSE Append(@, x),
              !.msid = IF named THEN @ \union {x} ELSE @]

(* Groups are left alone.                                                  *)
ReplaceSsrc(m, old, new) ==
    LET Swap(x) == IF x = old THEN new ELSE x
    IN  [m EXCEPT !.ssrcs = [i \in DOMAIN @ |-> Swap(@[i])],
                  !.msid = {Swap(x) : x \in @}]

RemoveGroupsWith(m, x) ==
    [m EXCEPT !.groups = SelectSeq(@, LAMBDA g : x \notin Range(g.of))]

RtxOf(m, p) ==
    LET fid == SelectSeq(GroupsOf(m, "FID"), LAMBDA g : g.of[1] = p)
    IN  IF fid = <<>> THEN None ELSE fid[1].of[2]

PrimaryVideoSsrc(m) ==
    LET sim == GroupsOf(m, "SIM")
        fid == GroupsOf(m, "FID")
    IN  CASE Len(m.ssrcs) = 1 -> m.ssrcs[1]
          [] Len(m.ssrcs) # 1 /\ sim # <<>> -> sim[1].of[1]
          [] Len(m.ssrcs) # 1 /\ sim = <<>> /\ fid # <<>> -> fid[1].of[1]
          [] OTHER -> None

(* Secondaries of FID groups are spliced out; one that has no line takes   *)
(* the last source with it, as splice(-1, 1) does.                         *)
PrimaryVideoSsrcs(m) ==
    LET Without(s, g) ==
            IF g.of[2] \in Range(s) THEN SelectSeq(s, LAMBDA x : x # g.of[2])
            ELSE IF s = <<>> THEN s ELSE Front(s)
    IN  FoldLeft(Without, m.ssrcs, GroupsOf(m, "FID"))

(* ---- retransmission (RtxModifier) -------------------------------------- *)

(* Faulty: what the stream had before stays in the description.            *)
UpdateAssociatedRtxStreamOnly(m, p, r) ==
    LET added == AddSsrc(m, r, p \in m.msid)
    IN  IF RtxOf(m, p) = r THEN m
        ELSE [added EXCEPT !.groups = Append(@, Fid(p, r))]

(* updateAssociatedRtxStream                                               *)
UpdateAssociatedRtxStream(m, p, r) ==
    LET old == RtxOf(m, p)
        clean == IF old = None THEN m ELSE RemoveGroupsWith(RemoveSsrc(m, old), old)
        added == AddSsrc(clean, r, p \in m.msid)
    IN  IF old = r THEN m
        ELSE [added EXCEPT !.groups = Append(@, Fid(p, r))]

(* Every primary source has the retransmission it had before, or that of   *)
(* the description, or a new one.                                          *)
ModifyRtxSsrcs(d) ==
    LET Step(acc, p) ==
            LET r == CASE p \in DOMAIN acc.rtx -> acc.rtx[p]
                       [] p \notin DOMAIN acc.rtx /\ RtxOf(acc.m, p) # None -> RtxOf(acc.m, p)
                       [] OTHER -> acc.next
            IN  [acc EXCEPT !.m = UpdateAssociatedRtxStream(@, p, r),
                            !.rtx = IF p \in DOMAIN @ THEN @ ELSE @ @@ (p :> r),
                            !.next = IF r = @ THEN @ + 1 ELSE @]
    IN  IF d.m.dir = "recvonly" \/ d.m.ssrcs = <<>> THEN d
        ELSE FoldLeft(Step, d, PrimaryVideoSsrcs(d.m))

(* ---- simulcast (SdpSimulcast) ------------------------------------------ *)

FillSsrcsFromCache(m, cache) ==
    [m EXCEPT !.ssrcs = cache,
              !.msid = IF m.ssrcs[1] \in @ THEN Range(cache) ELSE {},
              !.groups = <<Sim(cache)>>]

(* A description that has its layers already, or nothing to send, is left  *)
(* alone; the layers made for the section once are used for ever.          *)
MungeLocalDescription(d) ==
    LET m == d.m
        n == Len(m.ssrcs)
        primary == IF n = 1 THEN m.ssrcs[1] ELSE GroupsOf(m, "FID")[1].of[1]
        new == [i \in 1 .. Layers - 1 |-> d.next + i - 1]
        layers == <<primary>> \o new
        all == m.ssrcs \o new
    IN  CASE ~Sends(m) \/ n = 0 \/ n > 2 \/ (n = 2 /\ m.groups = <<>>) -> d
          [] OTHER ->
             IF d.cache # <<>> THEN [d EXCEPT !.m = FillSsrcsFromCache(m, d.cache)]
             ELSE [d EXCEPT
                    !.m = [m EXCEPT
                             !.ssrcs = all,
                             !.msid = IF primary \in @ THEN @ \union Range(new) ELSE Range(all),
                             !.groups = Append(@, Sim(layers))],
                    !.cache = layers, !.next = @ + Layers - 1]

(* The browser is told the first layer and its retransmission only.  The   *)
(* code does so when the section is sendonly, as every section of a source *)
(* that the bridge forwards is here: its direction is not modelled.        *)
MungeRemoteDescription(m) ==
    LET sim == GroupsOf(m, "SIM")[1]
        fids == SelectSeq(GroupsOf(m, "FID"), LAMBDA g : sim.of[1] \in Range(g.of))
        Keep(S) == [m EXCEPT !.ssrcs = SelectSeq(@, LAMBDA x : x \in S),
                             !.msid = @ \intersect S]
    IN  IF m.ssrcs = <<>> \/ GroupsOf(m, "SIM") = <<>> THEN m
        ELSE IF GroupsOf(m, "FID") = <<>>
             THEN [Keep({sim.of[1]}) EXCEPT !.groups = SelectSeq(@, LAMBDA g : g # sim)]
             ELSE [Keep({sim.of[1], fids[1].of[2]}) EXCEPT !.groups = <<fids[1]>>]

(* TPCUtils: with groups, the sources in the order of the groups, and no   *)
(* other ones.                                                             *)
EnsureCorrectOrderOfSsrcs(m) ==
    LET Put(s, x) == IF x \in Range(s) \/ x \notin Sources(m) THEN s ELSE Append(s, x)
        order == FoldLeft(Put, <<>>, FlattenSeq([i \in DOMAIN m.groups |-> m.groups[i].of]))
    IN  IF m.groups = <<>> THEN m
        ELSE [m EXCEPT !.ssrcs = order, !.msid = @ \intersect Range(order)]

(* ---- one primary source for the life of a plan B connection ------------ *)

(* makeVideoPrimarySsrcsConsistent (SdpConsistency)                        *)
MakeVideoPrimarySsrcsConsistent(d) ==
    LET m == d.m
        new == PrimaryVideoSsrc(m)
        Led(g) == IF g.sem = "FID" /\ g.of[1] = new THEN Fid(d.primary, g.of[2]) ELSE g
        replaced == ReplaceSsrc(m, new, d.primary)
    IN  CASE m.dir = "recvonly" ->
               IF d.primary # None /\ d.inject
               THEN [d EXCEPT !.m = AddSsrc(m, d.primary, FALSE)] ELSE d
          [] m.dir # "recvonly" /\ new = None -> d
          [] OTHER ->
               [d EXCEPT !.inject = TRUE,
                         !.primary = IF @ = None THEN new ELSE @,
                         !.m = IF d.primary = None THEN m
                               ELSE [replaced EXCEPT !.groups = [i \in DOMAIN @ |-> Led(@[i])]]]

(* ---- what is told of a description (LocalSdpMunger) -------------------- *)

(* A muted camera, whose stream has been taken off the connection, is      *)
(* described as if it were there.                                          *)
AddMutedLocalVideo(d) ==
    LET bare == RemoveSsrc([d.m EXCEPT !.dir = "sendrecv"], d.primary)
    IN  ModifyRtxSsrcs([d EXCEPT !.m = AddSsrc(bare, d.primary, TRUE)]).m

(* In unified plan a section that does not send has no sources, and those  *)
(* of one that sends all have an msid.                                     *)
TransformMediaIdentifiers(m) ==
    IF m.dir \in {"recvonly", "inactive"} THEN Bare(m.dir)
    ELSE [m EXCEPT !.msid = Sources(m)]

(* ---- source-add and source-remove (SDPDiffer, JingleSessionPC) --------- *)

(* What of other is not in mine.  Of the msid only its presence counts.    *)
GetNewMedia(mine, other) ==
    [ssrcs |-> {x \in Sources(other) :
                  x \notin Sources(mine) \/ (x \in mine.msid) # (x \in other.msid)},
     msid |-> other.msid,
     groups |-> SelectSeq(other.groups, LAMBDA g : g \notin Range(mine.groups))]

(* notifyMySSRCUpdate: changed groups alone are not sent.                  *)
SourceUpdates(old, new) ==
    LET remove == GetNewMedia(new, old)
        add == GetNewMedia(old, new)
        Iq(action, media) ==
            IF media.ssrcs = {} THEN <<>>
            ELSE <<[action |-> action, ssrcs |-> media.ssrcs,
                    msid |-> media.msid \intersect media.ssrcs, groups |-> media.groups]>>
    IN  Iq("remove", remove) \o Iq("add", add)

(* Only unknown sources are taken, and only by their parameters; the groups *)
(* come in any case.                                                       *)
AddSourcesOf(m, iq) ==
    LET new == {x \in iq.ssrcs : x \notin Sources(m) /\ x \in iq.msid}
    IN  [m EXCEPT !.ssrcs = @ \o SetToSortSeq(new, <), !.msid = @ \union new,
                  !.groups = @ \o iq.groups]

(* Faulty: the lines of the groups stay.                                   *)
RemoveSourcesOnly(m, iq) ==
    [m EXCEPT !.ssrcs = SelectSeq(@, LAMBDA x : x \notin iq.ssrcs), !.msid = @ \ iq.ssrcs]

(* The lines of the sources and of the groups, each once.                  *)
RemoveSourcesOf(m, iq) ==
    LET First(gs, g) == IF g \in Range(gs) THEN RemoveFirst(gs, g) ELSE gs
    IN  [m EXCEPT !.ssrcs = SelectSeq(@, LAMBDA x : x \notin iq.ssrcs),
                  !.msid = @ \ iq.ssrcs,
                  !.groups = FoldLeft(First, @, iq.groups)]
=============================================================================
