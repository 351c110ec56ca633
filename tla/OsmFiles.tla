------------------------------- MODULE OsmFiles -------------------------------
(***************************************************************************)
(* What update osm and import osm read before they touch anything: the     *)
(* OsmChange document of a sequence and its state.txt (osm::replication),  *)
(* and the replication fields of a PBF's header (osm::pbf_header).  The    *)
(* three come from elsewhere, and what is read from them is applied and    *)
(* stamped as it is.                                                       *)
(*                                                                         *)
(* A document is the sequence of its events, and attributes are a function *)
(* of the keys that are there.  A message of protocol buffers is the       *)
(* sequence of its fields [number, wire, value]; the value is Absent when  *)
(* the data end inside the field, which only the last can be.              *)
(***************************************************************************)
EXTENDS OsmStore

CONSTANTS
  Garbled,      \* text that is no number
  Undecodable,  \* text with an entity nobody knows
  Failed        \* an error, or a panic

-------------------------------------------------------------------------------
(* parse_osc                                                               *)

Kinds == {"node", "way", "relation"}
ChangeActions == {"create", "modify", "delete"}
Parts == {"tag", "nd", "member"}

NumbersOf(kind) == {"id", "version"} \cup IF kind = "node" THEN {"lon", "lat"} ELSE {}

Attribute(attrs, key, default) == IF key \in DOMAIN attrs THEN attrs[key] ELSE default
Decodable(attrs) == \A key \in DOMAIN attrs : attrs[key] # Undecodable

\* The attributes of an object; one that is missing is zero.
Element(action, kind, attrs) ==
  IF /\ action # Absent /\ Decodable(attrs)
     /\ \A key \in NumbersOf(kind) : Attribute(attrs, key, 0) # Garbled
    THEN [action |-> action, numbers |-> [key \in NumbersOf(kind) |-> Attribute(attrs, key, 0)],
          parts |-> [p \in Parts |-> <<>>]]
    ELSE Failed

Blank ==
  [action |-> Absent, open |-> [k \in Kinds |-> Absent], change |-> [k \in Kinds |-> <<>>]]

OnStart(s, name, attrs) ==
  CASE name \in ChangeActions -> [s EXCEPT !.action = name]
    [] name \in Kinds ->
         LET object == Element(s.action, name, attrs)
         IN IF object = Failed THEN Failed ELSE [s EXCEPT !.open[name] = object]
    [] OTHER -> s

\* Whom a part belongs to: a tag to the first that is open, the others to a kind.
Owner(s, part) ==
  LET owners == CASE part = "tag" -> <<"node", "way", "relation">>
                  [] part = "nd" -> <<"way">>
                  [] part = "member" -> <<"relation">>
      open == SelectSeq(owners, LAMBDA k : s.open[k] # Absent)
  IN IF open = <<>> THEN Absent ELSE open[1]

\* A part's value; an nd without a ref has none.
PartOf(part, attrs) ==
  CASE part = "tag" -> <<Attribute(attrs, "k", ""), Attribute(attrs, "v", "")>>
    [] part = "nd" -> Attribute(attrs, "ref", Absent)
    [] part = "member" ->
         <<Attribute(attrs, "type", ""), Attribute(attrs, "ref", 0), Attribute(attrs, "role", "")>>

\* A tag is read whether or not there is an object for it.
PartFails(s, part, attrs) ==
  /\ part = "tag" \/ Owner(s, part) # Absent
  /\ ~Decodable(attrs) \/ Attribute(attrs, "ref", 0) = Garbled

OnEmpty(s, name, attrs) ==
  CASE name \in Kinds ->
         LET object == Element(s.action, name, attrs)
         IN IF object = Failed THEN Failed ELSE [s EXCEPT !.change[name] = Append(@, object)]
    [] name \in Parts ->
         IF PartFails(s, name, attrs) THEN Failed
         ELSE IF Owner(s, name) = Absent \/ PartOf(name, attrs) = Absent THEN s
         ELSE [s EXCEPT !.open[Owner(s, name)].parts[name] = Append(@, PartOf(name, attrs))]
    [] OTHER -> s

OnEnd(s, name) ==
  CASE name \in ChangeActions -> [s EXCEPT !.action = Absent]
    [] name \in Kinds /\ s.open[name] # Absent ->
         [s EXCEPT !.change[name] = Append(@, s.open[name]), !.open[name] = Absent]
    [] OTHER -> s

\* The end of the document is taken as it comes, whatever is still open.
ParseOsc(document) ==
  LET Read(s, event) ==
        CASE s = Failed \/ event.is = "Malformed" -> Failed
          [] event.is = "Start" -> OnStart(s, event.name, event.attrs)
          [] event.is = "Empty" -> OnEmpty(s, event.name, event.attrs)
          [] event.is = "End" -> OnEnd(s, event.name)
      last == FoldLeft(Read, Blank, document)
  IN IF last = Failed THEN Failed ELSE last.change

-------------------------------------------------------------------------------
(* state.txt: its lines, by key                                            *)

\* A key or a field may be given more than once: the last one stands.
LastOf(found) == IF found = <<>> THEN Absent ELSE found[Len(found)].value

\* The colons of a timestamp are escaped there.
Unescaped(timestamp) == [timestamp EXCEPT !.colon = ":"]

ParseState(lines) ==
  LET seq == LastOf(SelectSeq(lines, LAMBDA l : l.key = "sequenceNumber"))
      timestamp == LastOf(SelectSeq(lines, LAMBDA l : l.key = "timestamp"))
  IN IF \/ \E i \in DOMAIN lines : lines[i].key = "sequenceNumber" /\ lines[i].value = Garbled
        \/ seq = Absent \/ timestamp = Absent
       THEN Failed
       ELSE [seq |-> seq, timestamp |-> Unescaped(timestamp)]

-------------------------------------------------------------------------------
(* The header of a PBF                                                     *)

\* read_varint: no more groups than an integer has room for, and what does not
\* fit into the last one is lost.
ReadVarint(bytes, pos) ==
  LET ends == {i \in pos .. Len(bytes) : bytes[i] < More}
      fits == {i \in ends : (i - pos) * GroupBits < IdBits /\ \A j \in pos .. i - 1 : j \notin ends}
  IN IF fits = {} THEN Absent
     ELSE LET read == ReadUvarint(bytes, pos)
          IN [value |-> read.value % Values, next |-> read.next]

IsField(f, number, wire) == f.number = number /\ f.wire = wire
\* skip_field knows these; of a field it skips it asks no more than its length.
Skipped(f) == f.wire \in {1, 2, 5} \/ (f.wire = 0 /\ f.value # Absent)

\* parse_blob_header.
BlobHeader(fields) ==
  LET type == LastOf(SelectSeq(fields, LAMBDA f : IsField(f, 1, 2)))
      datasize == LastOf(SelectSeq(fields, LAMBDA f : IsField(f, 3, 0)))
      readable(f) == IF IsField(f, 1, 2) \/ IsField(f, 3, 0) THEN f.value # Absent ELSE Skipped(f)
  IN IF (\A i \in DOMAIN fields : readable(fields[i])) /\ type # Absent /\ datasize # Absent
       THEN [type |-> type, datasize |-> datasize] ELSE Failed

\* decode_blob: the first field that holds data, as it is or behind zlib.
DecodeBlob(fields) ==
  LET holds == {i \in DOMAIN fields : IsField(fields[i], 1, 2) \/ IsField(fields[i], 3, 2)}
      first == CHOOSE i \in holds : \A j \in holds : i <= j
  IN IF \/ holds = {}
        \/ \E j \in 1 .. first - 1 : ~Skipped(fields[j])
        \/ fields[first].value \in {Absent, Garbled}
       THEN Failed ELSE fields[first].value

\* parse_header_block_replication: a number that is cut short is zero.
HeaderReplication(fields) ==
  LET number(n) == LET last == LastOf(SelectSeq(fields, LAMBDA f : IsField(f, n, 0)))
                       given == \E i \in DOMAIN fields : IsField(fields[i], n, 0)
                   IN IF given /\ last = Absent THEN 0 ELSE last
  IN [seq |-> number(33), secs |-> number(32)]

\* epoch_secs_to_iso8601; the division of a negative z rounds down.
CivilOf(days) ==
  LET z == days + 719468
      era == z \div 146097
      doe == z - era * 146097
      yoe == (doe - doe \div 1460 + doe \div 36524 - doe \div 146096) \div 365
      doy == doe - (365 * yoe + yoe \div 4 - yoe \div 100)
      mp == (5 * doy + 2) \div 153
      d == doy - (153 * mp + 2) \div 5 + 1
      m == IF mp < 10 THEN mp + 3 ELSE mp - 9
  IN <<yoe + era * 400 + IF m <= 2 THEN 1 ELSE 0, m, d>>

DaySeconds == 86400
Iso8601(secs) ==
  LET timeOfDay == secs % DaySeconds
  IN [date |-> CivilOf((secs - timeOfDay) \div DaySeconds), colon |-> ":",
      time |-> <<timeOfDay \div 3600, (timeOfDay % 3600) \div 60, timeOfDay % 60>>]

\* read_replication_info: the first `whole` of the length, the BlobHeader and
\* the Blob are there.  Absent: the header does not say.
ReplicationInfo(file) ==
  LET header == BlobHeader(file.header)
      block == DecodeBlob(file.blob)
      info == HeaderReplication(block)
  IN CASE file.whole < 2 -> Failed
       [] header = Failed -> Failed
       [] header.type # "OSMHeader" -> Failed
       [] file.whole < 3 -> Failed
       [] block = Failed -> Failed
       [] info.seq = Absent \/ info.secs = Absent -> Absent
       [] OTHER -> [seq |-> info.seq, timestamp |-> Iso8601(info.secs)]

-------------------------------------------------------------------------------
(* What upstream writes                                                    *)

Event(is, name, attrs) == [is |-> is, name |-> name, attrs |-> attrs]
NoAttrs == [key \in {} |-> 0]

\* An element without parts may close itself; its parts always do.
ElementEvents(x, tight) ==
  IF tight /\ x.parts = <<>> THEN <<Event("Empty", x.kind, x.attrs)>>
  ELSE <<Event("Start", x.kind, x.attrs)>>
         \o [i \in DOMAIN x.parts |-> Event("Empty", x.parts[i].name, x.parts[i].attrs)]
         \o <<Event("End", x.kind, NoAttrs)>>
Document(blocks, tight) ==
  LET block(b) == <<Event("Start", b.action, NoAttrs)>>
                    \o FlattenSeq([i \in DOMAIN b.elements |-> ElementEvents(b.elements[i], tight)])
                    \o <<Event("End", b.action, NoAttrs)>>
  IN <<Event("Start", "osmChange", NoAttrs)>> \o FlattenSeq([i \in DOMAIN blocks |-> block(blocks[i])])
       \o <<Event("End", "osmChange", NoAttrs)>>

\* The objects of a kind, with the action of their block, in document order.
Meant(blocks, kind) ==
  LET own(x, name) == SelectSeq(x.parts, LAMBDA p : p.name = name)
      object(action, x) ==
        [action |-> action,
         numbers |-> [key \in NumbersOf(kind) |-> Attribute(x.attrs, key, 0)],
         parts |-> [p \in Parts |-> [i \in DOMAIN own(x, p) |-> PartOf(p, own(x, p)[i].attrs)]]]
      of(b) == SelectSeq(b.elements, LAMBDA x : x.kind = kind)
  IN FlattenSeq([i \in DOMAIN blocks |->
       [j \in DOMAIN of(blocks[i]) |-> object(blocks[i].action, of(blocks[i])[j])]])

LeapYear(y) == y % 4 = 0 /\ (y % 100 # 0 \/ y % 400 = 0)
MonthDays(y, m) ==
  CASE m = 2 -> IF LeapYear(y) THEN 29 ELSE 28
    [] m \in {4, 6, 9, 11} -> 30
    [] OTHER -> 31
Tomorrow(date) ==
  LET y == date[1] m == date[2] d == date[3]
  IN CASE d < MonthDays(y, m) -> <<y, m, d + 1>>
       [] m < 12 -> <<y, m + 1, 1>>
       [] OTHER -> <<y + 1, 1, 1>>

-------------------------------------------------------------------------------
(* What is owed to whoever applies what was read                           *)

\* collapse relies on every version of every object: in document order, with the
\* action of its own block and its own parts, whether or not elements without
\* parts close themselves (replication.rs:525-528).  A document that ends early
\* is accepted; it gives the objects that were closed, and none by half.
EveryVersionRead(Documents) ==
  \A blocks \in Documents, tight \in BOOLEAN :
    LET document == Document(blocks, tight)
    IN /\ ParseOsc(document) = [k \in Kinds |-> Meant(blocks, k)]
       /\ \A n \in 0 .. Len(document) :
            LET read == ParseOsc(SubSeq(document, 1, n))
            IN \A k \in Kinds : IsPrefix(read[k], Meant(blocks, k))

\* One object that cannot be read, or stands outside of every block, fails its
\* whole document: none is skipped.
NoneSkipped(Documents, BadElements) ==
  \A blocks \in Documents, tight \in BOOLEAN :
    /\ \A bad \in BadElements :
         LET block == [action |-> "modify", elements |-> <<bad>>]
         IN ParseOsc(Document(Append(blocks, block), tight)) = Failed
    /\ \A kind \in Kinds :
         LET stray == [kind |-> kind, attrs |-> NoAttrs, parts |-> <<>>]
         IN ParseOsc(Document(blocks, tight) \o ElementEvents(stray, tight)) = Failed

\* The stamp of an import and the stamp of an update are compared and continued:
\* for one replication state, the header of a PBF and a state.txt, whatever else
\* they hold, give the same one.
StampsAgree(Seqs, Instants, Others) ==
  \A seq \in Seqs, secs \in Instants, before, after \in Others :
    LET escaped == [Iso8601(secs) EXCEPT !.colon = "\\:"]
        lines == <<[key |-> "timestamp", value |-> escaped],
                   [key |-> "sequenceNumber", value |-> seq]>>
        block == before \o <<[number |-> 33, wire |-> 0, value |-> seq]>> \o after
                   \o <<[number |-> 32, wire |-> 0, value |-> secs]>>
        file == [whole |-> 3, blob |-> <<[number |-> 3, wire |-> 2, value |-> block]>>,
                 header |-> <<[number |-> 1, wire |-> 2, value |-> "OSMHeader"],
                              [number |-> 3, wire |-> 0, value |-> 9]>>]
    IN /\ ParseState(lines) = ReplicationInfo(file)
       /\ ParseState(Reverse(lines)) = ParseState(lines)

\* A file that is cut, starts with another block or leaves out one of the two
\* numbers never tells an import where to continue; only a number that is itself
\* cut, inside a blob that is whole, does: it reads as zero.
NoSequenceInvented(Headers, Blobs) ==
  \A whole \in 0 .. 3, header \in Headers, blob \in Blobs :
    LET info == ReplicationInfo([whole |-> whole, header |-> header, blob |-> blob])
        said(block, n) == {v.value : v \in {f \in Range(block) : IsField(f, n, 0)}}
    IN info \notin {Failed, Absent} =>
         /\ whole = 3 /\ BlobHeader(header).type = "OSMHeader"
         /\ \E i \in DOMAIN blob :
              LET block == blob[i].value
              IN /\ blob[i].wire = 2 /\ block \notin {Absent, Garbled}
                 /\ said(block, 32) # {}
                 /\ info.seq \in said(block, 33) \/ (info.seq = 0 /\ Absent \in said(block, 33))

\* The date of each day is the one after the date of the day before.
DatesFollow(Days) ==
  /\ CivilOf(0) = <<1970, 1, 1>>
  /\ \A day \in Days : CivilOf(day + 1) = Tomorrow(CivilOf(day))

\* An integer reads as it was written, and one that is cut does not read at all.
VarintsRead ==
  \A u \in Unsigned :
    /\ ReadVarint(Uvarint[u], 1) = [value |-> u, next |-> Len(Uvarint[u]) + 1]
    /\ \A n \in 0 .. Len(Uvarint[u]) - 1 : ReadVarint(SubSeq(Uvarint[u], 1, n), 1) = Absent
===============================================================================
