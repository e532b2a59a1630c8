----------------------------- MODULE BackupPull -----------------------------
(***************************************************************************)
(* Serving a generation as packs, and the machine that pulls them            *)
(* (backup/manifest.go, pack.go; the puller as pluginapi/backup.go and the   *)
(* README describe it).  A pack is assembled from the live files while it is *)
(* sent, so it can fail, and the puller keeps what it could verify.          *)
(***************************************************************************)
EXTENDS BackupIndex

CONSTANTS
    Large,       \* paths whose file fills a pack of its own, served raw
    KeptPlans    \* keptGenerations

ASSUME PullAssumption == Large \subseteq Path /\ KeptPlans \in Nat \ {0}

VARIABLES
    cache,       \* packCache, oldest first: the packs of a generation
    pull,        \* the puller, and the stream it reads
    held,        \* packs at their final path, with what they contain
    acks         \* generations reported held

pullVars == <<cache, pull, held, acks>>

NoPack == [class |-> "none", raw |-> FALSE, members |-> {}]
Resting == [pc |-> "idle", gen |-> 0, packs |-> {}, pack |-> NoPack,
            sent |-> {}, at |-> <<>>, crc |-> <<>>, part |-> <<>>]

PullInit == cache = <<>> /\ pull = Resting /\ held = {} /\ acks = {}

(* filesForGen: an interval, because a running pass stamps the rows anew.    *)
InGen(r, g) == r.first <= g /\ g <= r.last
Files(g, c) == {<<r.path, r.sha>> : r \in {s \in rows : InGen(s, g) /\ ClassOf(s.path) = c}}

(* planPacks keeps one row per path, the first of an order that leaves rows  *)
(* of one path unordered; a large file fills a pack of its own.              *)
Paths(fs)  == {f[1] : f \in fs}
Single(fs) == {ks \in SUBSET fs : \A p \in Paths(fs) : \E f \in ks :
                  f[1] = p /\ \A h \in ks : h[1] = p => h = f}
Packs(c, fs) ==
    {[class |-> c, raw |-> TRUE, members |-> {f}] : f \in {h \in fs : h[1] \in Large}}
    \cup LET small == {f \in fs : f[1] \notin Large}
         IN  IF small = {} THEN {} ELSE {[class |-> c, raw |-> FALSE, members |-> small]}

Built(g) == {Packs("assets", a) \cup Packs("dumps", d) :
                a \in Single(Files(g, "assets")), d \in Single(Files(g, "dumps"))}

(* plansFor: from the cache, or built and cached, the oldest dropped.        *)
Cached(g) == {i \in DOMAIN cache : cache[i].gen = g}
Plans(g)  == IF Cached(g) # {} THEN {cache[i].packs : i \in Cached(g)} ELSE Built(g)
Remember(g, ks) ==
    cache' = IF Cached(g) # {} THEN cache
             ELSE LET all == Append(cache, [gen |-> g, packs |-> ks])
                  IN  IF Len(all) > KeptPlans THEN Tail(all) ELSE all

(* BuildManifest of the newest sealed generation.                            *)
FetchManifest ==
    /\ pull.pc = "idle" /\ sealed # {} /\ left["pullers"] > 0
    /\ \E ks \in Plans(Sealed) :
          /\ Remember(Sealed, ks)
          /\ pull' = [Resting EXCEPT !.pc = "plan", !.gen = Sealed, !.packs = ks]
    /\ UNCHANGED <<held, acks>>

Have(k) == \E h \in held : h.pack = k

(* StreamPack: the pack must be one of the pinned generation's.  What came   *)
(* before a stream of the same pack broke off is kept and skipped.           *)
OpenPack(k) ==
    /\ pull.pc = "plan" /\ k \in pull.packs /\ ~Have(k)
    /\ \E ks \in Plans(pull.gen) :
          /\ Remember(pull.gen, ks)
          /\ pull' = IF k \notin ks THEN Resting
                     ELSE [pull EXCEPT !.pc = "stream", !.pack = k, !.sent = {}, !.crc = <<>>,
                              !.part = IF pull.pack = k THEN @ ELSE <<>>]
    /\ UNCHANGED <<held, acks>>

Broken == [pull EXCEPT !.pc = "plan"]

With(f, p, b) == [q \in DOMAIN f \cup {p} |-> IF q = p THEN b ELSE f[q]]
Received(p, b) == IF p \in DOMAIN pull.part THEN pull.part ELSE With(pull.part, p, b)

\* Mutant: only the length is compared, which is the same here.
SameLength(m) == TRUE
(* digestFile: the contents must be those the pack's id describes.           *)
AsPlanned(m) == disk[m[1]].bytes = m[2]

DigestMember(m) ==
    /\ pull.pc = "stream" /\ ~pull.pack.raw
    /\ m \in pull.pack.members /\ m[1] \notin pull.sent
    /\ pull' = IF There(m[1]) /\ AsPlanned(m)
               THEN [pull EXCEPT !.pc = "copy", !.at = m,
                        !.crc = With(@, m[1], disk[m[1]].bytes)]
               ELSE Broken
    /\ UNCHANGED <<cache, held, acks>>

(* The copy reads the open file again: as it was, or overwritten in place.   *)
CopyMember ==
    /\ pull.pc = "copy"
    /\ LET p == pull.at[1]
       IN  \E b \in {pull.crc[p]} \cup IF There(p) THEN {disk[p].bytes} ELSE {} :
              pull' = [pull EXCEPT !.pc = "stream", !.part = Received(p, b),
                                   !.sent = @ \cup {p}]
    /\ UNCHANGED <<cache, held, acks>>

(* writeRawPack: the file as it is, its length checked.                      *)
SendRaw(m) ==
    /\ pull.pc = "stream" /\ pull.pack.raw
    /\ m \in pull.pack.members /\ m[1] \notin pull.sent
    /\ pull' = IF There(m[1])
               THEN [pull EXCEPT !.part = Received(m[1], disk[m[1]].bytes),
                                 !.sent = @ \cup {m[1]}]
               ELSE Broken
    /\ UNCHANGED <<cache, held, acks>>

(* The puller verifies every CRC, of a raw pack the manifest's sha256.       *)
Verified == \A m \in pull.pack.members :
               pull.part[m[1]] = IF pull.pack.raw THEN m[2] ELSE pull.crc[m[1]]

FinishPack ==
    /\ pull.pc = "stream" /\ pull.sent = {m[1] : m \in pull.pack.members}
    /\ held' = IF Verified THEN held \cup {[pack |-> pull.pack, got |-> pull.part]} ELSE held
    /\ pull' = [pull EXCEPT !.pc = "plan", !.pack = NoPack, !.part = <<>>, !.crc = <<>>]
    /\ UNCHANGED <<cache, acks>>

(* Ack, when every pack of the manifest is held.                             *)
Acknowledge ==
    /\ pull.pc = "plan" /\ \A k \in pull.packs : Have(k)
    /\ acks' = acks \cup {pull.gen}
    /\ pull' = Resting
    /\ UNCHANGED <<cache, held>>

(* The puller ends, or begins again with a newer manifest.                   *)
GiveUp == pull.pc # "idle" /\ pull' = Resting /\ UNCHANGED <<cache, held, acks>>

(* The connection drops.                                                     *)
DropStream == /\ pull.pc \in {"stream", "copy"} /\ Spend("drops")
              /\ pull' = Broken
              /\ UNCHANGED <<cache, held, acks>>

PullStep == \/ /\ NoFault
               /\ \/ FetchManifest \/ CopyMember \/ FinishPack \/ Acknowledge \/ GiveUp
                  \/ \E k \in pull.packs : OpenPack(k)
                  \/ \E m \in pull.pack.members : DigestMember(m) \/ SendRaw(m)
            \/ DropStream
=============================================================================
