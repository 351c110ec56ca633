------------------------------- MODULE Responses -------------------------------
(***************************************************************************)
(* The answers of GET /tiles/{z}/{x}/{y} and of the static files, header   *)
(* by header (server::http_cache, tiles::serve_tile, tile_store's values): *)
(* which tier answers, what a stored value says of itself, whether the     *)
(* client is told to keep what it has, in which encoding it gets the body, *)
(* and who may keep that answer for how long.                              *)
(*                                                                         *)
(* A body is a number and stands for the bytes of one render; a stored     *)
(* value is a sequence of numbers, one for each field of its header, one   *)
(* for each character of the etag and two for the gzip stream.  The length *)
(* of the body, which only sizes a buffer, is left out.                    *)
(***************************************************************************)
EXTENDS Integers, Sequences, SequencesExt

CONSTANTS
  Bodies,         \* what renders produce
  HashOf,         \* content_etag: the characters of a body's hash
  FormatVersion,  \* tiles::TILE_FORMAT_VERSION
  NotUtf8,        \* a byte that is in no string
  Nothing,        \* no header, no value, no body
  Failed,         \* a render or a decompression that failed
  Star,           \* the entity-tag *
  Unreadable      \* an If-None-Match that is not text

\* 64 bits: a collision would leave one stale tile in one browser
\* (tile_store.rs:140).
ASSUME HashAssumption == \A b, c \in Bodies : HashOf[b] = HashOf[c] => b = c
\* An etag is a string with characters.
ASSUME EtagAssumption ==
  \A b \in Bodies :
    HashOf[b] \in Seq(Int) /\ HashOf[b] # <<>> /\ \A i \in DOMAIN HashOf[b] : HashOf[b][i] # NotUtf8
ASSUME BodiesAssumption == Bodies \subseteq Int /\ FormatVersion \in Int /\ NotUtf8 \in Int
\* What stands for nothing or a failure is no value.
ASSUME NothingAssumption ==
  /\ Nothing \notin Seq(Int) \cup Int \cup [tag : Seq(Int), payload : Seq(Int)]
  /\ Failed \notin Bodies /\ Star \notin Seq(Int)

-------------------------------------------------------------------------------
(* Stored values                                                           *)

TileValueFormat == 1
HeaderLen == 3  \* the format, the version of the tiles, the length of the etag

\* A gzip stream: the compressed bytes, and their checksum.
Gzip(body) == <<body, -body>>
Decompress(payload) ==
  IF \E b \in Bodies : payload = Gzip(b) THEN payload[1] ELSE Failed

\* tile_store::prepare: the hash is taken before the compression.
Prepare(raw) == [tag |-> HashOf[raw], payload |-> Gzip(raw)]

EncodeValue(version, tile) ==
  <<TileValueFormat, version, Len(tile.tag)>> \o tile.tag \o tile.payload

\* decode_value: every malformed shape is a miss.
DecodeValue(raw, version) ==
  LET end == HeaderLen + raw[3]
      tag == SubSeq(raw, HeaderLen + 1, end)
      sound == /\ Len(raw) >= HeaderLen
               /\ raw[1] = TileValueFormat
               /\ raw[2] = version
               /\ Len(raw) >= end
               /\ NotUtf8 \notin Range(tag)
  IN IF sound THEN [tag |-> tag, payload |-> SubSeq(raw, end + 1, Len(raw))] ELSE Nothing

-------------------------------------------------------------------------------
(* A request has a zoom, an Accept-Encoding (codings with their q, all     *)
(* that is not zero being 1) and an If-None-Match (entity-tags without     *)
(* their weakness, which is stripped before they are compared).            *)

AcceptsGzip(request) ==
  /\ request.accept # Nothing
  /\ \E i \in DOMAIN request.accept :
       /\ request.accept[i].coding \in {"gzip", "*"}
       /\ request.accept[i].q # 0

\* if_none_match_matches
AlreadyHas(request, tag) ==
  /\ request.known \notin {Nothing, Unreadable}
  /\ \E i \in DOMAIN request.known :
       LET candidate == request.known[i]
       IN candidate.tag = Star \/ (candidate.quoted /\ candidate.tag = tag)

-------------------------------------------------------------------------------
(* Tiles                                                                   *)

\* A response without headers; for a tile that failed nothing is added
\* (finish_tile_response).
Bare(status) ==
  [status |-> status, keep |-> Nothing, tag |-> Nothing, vary |-> FALSE,
   encoding |-> "identity", body |-> Nothing]

NotModified(tag, keep) == [Bare(304) EXCEPT !.keep = keep, !.tag = tag, !.vary = TRUE]

\* tile_body_response
TileBody(payload, keep, tag, gzip) ==
  LET answer == [Bare(200) EXCEPT !.keep = keep, !.tag = tag, !.vary = TRUE]
      raw == Decompress(payload)
  IN CASE gzip -> [answer EXCEPT !.encoding = "gzip", !.body = payload]
       [] ~gzip /\ raw # Failed -> [answer EXCEPT !.body = raw]
       [] ~gzip /\ raw = Failed -> Bare(500)

\* An answer with a validator, from the store or from a render.
Validated(tile, keep, request) ==
  IF AlreadyHas(request, tile.tag) THEN NotModified(tile.tag, keep)
  ELSE TileBody(tile.payload, keep, tile.tag, AcceptsGzip(request))

ServePersisted(stored, rendered, request) ==
  LET keep == IF request.zoom = 14 THEN "tile" ELSE "agg_tile"
  IN CASE stored # Nothing -> Validated(stored, keep, request)
       [] stored = Nothing /\ rendered # Failed -> Validated(Prepare(rendered), keep, request)
       [] stored = Nothing /\ rendered = Failed -> Bare(500)

\* serve_tile_agg: no validator, since the content moves with the clock.
ServeAgg(cached, rendered, request) ==
  LET answer(payload) == TileBody(payload, "agg_tile", Nothing, AcceptsGzip(request))
  IN CASE cached # Nothing -> answer(cached)
       [] cached = Nothing /\ rendered # Failed -> answer(Prepare(rendered).payload)
       [] cached = Nothing /\ rendered = Failed -> Bare(500)

Tier(zoom) ==
  CASE zoom \in 5 .. 11 -> "agg" [] zoom \in 12 .. 14 -> "persisted" [] OTHER -> "outside"

\* serve_tile; held is what the tier's own store has of the tile.
ServeTile(held, rendered, request) ==
  CASE Tier(request.zoom) = "agg" ->
         ServeAgg(IF held = Nothing THEN Nothing ELSE held.payload, rendered, request)
    [] Tier(request.zoom) = "persisted" -> ServePersisted(held, rendered, request)
    [] OTHER -> [Bare(204) EXCEPT !.keep = "out_of_range_zoom"]

\* classify_static_response; the prefix is that of the path as it was sent,
\* the place is where ServeDir found the file.
ServeStatic(request) ==
  LET kept == CASE request.prefix = "/fonts/" -> "font"
                [] request.prefix = "/vendor/" -> "vendor"
                [] OTHER -> "no-cache"
  IN [Bare(request.status) EXCEPT !.keep = IF request.status \in {200, 304} THEN kept ELSE Nothing]

\* build_router: the outermost layer fills in what no handler has set.
Sent(answer) == [answer EXCEPT !.keep = IF @ = Nothing THEN "no-store" ELSE @]

-------------------------------------------------------------------------------
(* Who keeps an answer: a cache of the client's or one it shares, which    *)
(* uses what it got for one request to answer another one.                 *)

Shares(answer, asked, other) ==
  /\ answer.keep # "no-store"
  /\ answer.vary => asked.accept = other.accept

\* RFC 9110: an entry of the coding decides, else one of *; without either a
\* coding is not acceptable.
Reads(request, encoding) ==
  LET entries(coding) ==
        {i \in DOMAIN request.accept : request.accept[i].coding = coding}
      allowed(coding) == \E i \in entries(coding) : request.accept[i].q # 0
  IN \/ encoding = "identity"
     \/ request.accept # Nothing /\ (IF entries("gzip") # {} THEN allowed("gzip") ELSE allowed("*"))

\* `gzip;q=0, *` refuses gzip, and accepts_gzip takes the * for consent.
ClearAboutGzip(request) ==
  request.accept # Nothing =>
    ~ \E i, j \in DOMAIN request.accept :
        /\ request.accept[i].coding = "gzip" /\ request.accept[i].q = 0
        /\ request.accept[j].coding \in {"gzip", "*"} /\ request.accept[j].q # 0

\* What the store may give for a tile whose render is body: nothing, the
\* render, or any render of another version of the tiles.
HeldFor(body) ==
  {Nothing, DecodeValue(EncodeValue(FormatVersion, Prepare(body)), FormatVersion)}
    \cup {DecodeValue(EncodeValue(FormatVersion + 1, Prepare(b)), FormatVersion) : b \in Bodies}

-------------------------------------------------------------------------------
(* A tile is the same whether it was stored or is rendered now: status,    *)
(* headers and body, in every tier and for every client (tiles.rs:1104).   *)
HitLikeMiss(requests) ==
  \A r \in requests, b \in Bodies : \A held \in HeldFor(b) :
    ServeTile(held, b, r) = ServeTile(Nothing, b, r)

(* A client that asks whether the tile it has is current hears 304 only if *)
(* it is, and then may go on to use it; one that has it under its etag     *)
(* always hears 304 in the tiers with a validator, and never in the tier   *)
(* whose content moves with the clock.                                     *)
RevalidatesRight(requests) ==
  \A r \in requests, b \in Bodies : \A held \in HeldFor(b), rendered \in {b} \cup {Failed} :
    LET answer == ServeTile(held, rendered, r)
        named == r.known \notin {Nothing, Unreadable}
                   /\ \E i \in DOMAIN r.known :
                        r.known[i] \in {[tag |-> HashOf[b], quoted |-> TRUE],
                                        [tag |-> Star, quoted |-> FALSE]}
    IN /\ answer.status = 304 =>
            named /\ Tier(r.zoom) = "persisted" /\ answer.tag = HashOf[b] /\ answer.body = Nothing
       /\ (named /\ Tier(r.zoom) = "persisted" /\ (held # Nothing \/ rendered # Failed))
            => answer.status = 304

(* No cache between the server and two clients hands one of them a body it *)
(* cannot read or keeps a failure, that of a render or of the stored gzip  *)
(* stream: Vary and no-store are on every answer that needs them.          *)
SharedCachesAreSafe(requests) ==
  \A r, other \in requests, b \in Bodies, rendered \in Bodies \cup {Failed} :
    \A held \in {Nothing, [tag |-> HashOf[b], payload |-> <<b>>]} :
      LET answer == Sent(ServeTile(held, rendered, r))
      IN (Shares(answer, r, other) /\ ClearAboutGzip(other)) =>
           /\ answer.status \in {200, 204, 304}
           /\ answer.status = 200 => answer.body # Nothing
           /\ Reads(other, answer.encoding)

(* A value of the store is read back as it was written; one of another     *)
(* layout, or cut or damaged in its header or its etag, is a miss; one cut *)
(* in the gzip stream still passes for the tile, and only a client without *)
(* gzip is told that something failed.                                     *)
StoredValues ==
  \A b \in Bodies :
    LET raw == EncodeValue(FormatVersion, Prepare(b))
        whole == HeaderLen + Len(HashOf[b])
    IN /\ DecodeValue(raw, FormatVersion) = Prepare(b)
       /\ DecodeValue([raw EXCEPT ![1] = @ + 1], FormatVersion) = Nothing
       /\ DecodeValue([raw EXCEPT ![whole] = NotUtf8], FormatVersion) = Nothing
       /\ \A n \in 0 .. Len(raw) - 1 :
            LET tile == DecodeValue(SubSeq(raw, 1, n), FormatVersion)
            IN IF n < whole THEN tile = Nothing
               ELSE tile.tag = HashOf[b] /\ Decompress(tile.payload) = Failed

(* Only a file that was served, and only one of the two directories whose  *)
(* files never change under their name, is kept without asking again.      *)
KeptFilesAreServed(requests) ==
  \A r \in requests :
    Sent(ServeStatic(r)).keep \in {"font", "vendor"} =>
      r.status \in {200, 304} /\ r.place \in {"fonts", "vendor"}
===============================================================================
