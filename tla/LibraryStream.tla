---------------------------- MODULE LibraryStream ----------------------------
(* A library in the text of a language model (core/library_stream_router.py *)
(* and its use in event_stream of message_service.py): markers part the     *)
(* text into a title, a content and a comment.  The parts are sent while    *)
(* the text arrives, cut anywhere, also inside a marker; the library that   *)
(* is stored is read from the whole text at the end.  A letter stands for a *)
(* word: a marker is "<<" and its name.                                     *)
EXTENDS Naturals, Sequences, SequencesExt, FiniteSetsExt

CONSTANTS
  Texts,     \* what the model may say, as sequences of letters
  TitleMax,  \* _LIBRARY_TITLE_MAX_LENGTH
  Default    \* DEFAULT_LIBRARY_TITLE, and the answer that names it

Blank == " "  \* what str.strip removes
Letters == UNION {Range(s) : s \in Texts}

ASSUME LibraryAssumption ==
  /\ TitleMax \in Nat \ {0} /\ Default # Blank
  /\ Texts \subseteq Seq(Letters) \ {<<>>}

VARIABLES
  raw,      \* _raw, joined
  rest,     \* what the model has still to say
  pending,  \* _pending
  section,  \* _state
  sent,     \* the deltas sent to the client, joined; a section has started when
            \* some of it is sent
  process,  \* none, or the call that runs _process: feed or flush
  library   \* title, content and answer that are stored

libraryVars == <<raw, rest, pending, section, sent, process, library>>

Marker == [BEFORE_TITLE |-> <<"<", "<", "T">>, IN_TITLE |-> <<"<", "<", "C">>,
           IN_CONTENT |-> <<"<", "<", "M">>]
NextSection == [BEFORE_TITLE |-> "IN_TITLE", IN_TITLE |-> "IN_CONTENT",
                IN_CONTENT |-> "IN_COMMENT"]
KindOf == [IN_TITLE |-> "title", IN_CONTENT |-> "content", IN_COMMENT |-> "comment"]
Sections == {"title", "content", "comment"}

LibraryInit ==
  /\ raw = <<>> /\ rest \in Texts /\ pending = <<>> /\ section = "BEFORE_TITLE"
  /\ sent = [k \in Sections |-> <<>>] /\ process = "none" /\ library = <<>>

-----------------------------------------------------------------------------
(* Texts                                                                    *)

\* str.find, from 1 on; 0 where there is none.
Find(s, m) ==
  LET at == {i \in 1..(Len(s) - Len(m) + 1) : SubSeq(s, i, i + Len(m) - 1) = m}
  IN IF at = {} THEN 0 ELSE Min(at)

From(s, i) == SubSeq(s, i, Len(s))

LStrip(s) == From(s, Min({i \in 1..Len(s) : s[i] # Blank} \cup {Len(s) + 1}))
RStrip(s) == SubSeq(s, 1, Max({i \in 1..Len(s) : s[i] # Blank} \cup {0}))
Strip(s) == RStrip(LStrip(s))

HeldBackShort(s, m) ==
  Max({k \in 0..Min({Len(s), Len(m) - 2}) : From(s, Len(s) - k + 1) = SubSeq(m, 1, k)})

\* How much of the end may be the beginning of a marker.
HeldBack(s, m) ==
  Max({k \in 0..Min({Len(s), Len(m) - 1}) : From(s, Len(s) - k + 1) = SubSeq(m, 1, k)})

-----------------------------------------------------------------------------
(* LibraryStreamRouter                                                      *)

\* A text before the title is dropped; a section begins with its first letter.
Emit(s) ==
  IF section = "BEFORE_TITLE" THEN UNCHANGED sent
  ELSE LET k == KindOf[section]
       IN sent' = [sent EXCEPT ![k] = @ \o (IF @ = <<>> THEN LStrip(s) ELSE s)]

\* A delta of any length, an empty one being ignored.
Feed ==
  /\ process = "none" /\ library = <<>>
  /\ \E n \in 1..Len(rest) :
       /\ raw' = raw \o SubSeq(rest, 1, n) /\ pending' = pending \o SubSeq(rest, 1, n)
       /\ rest' = From(rest, n + 1)
  /\ process' = "feed" /\ UNCHANGED <<section, sent, library>>

Flush ==
  /\ process = "none" /\ rest = <<>> /\ library = <<>> /\ process' = "flush"
  /\ UNCHANGED <<raw, rest, pending, section, sent, library>>

Marked == section # "IN_COMMENT" /\ Find(pending, Marker[section]) # 0

\* A round of the loop that finds the marker awaited.
NextMarker ==
  /\ process # "none" /\ Marked
  /\ LET m == Marker[section]
         i == Find(pending, m)
     IN Emit(SubSeq(pending, 1, i - 1)) /\ pending' = From(pending, i + Len(m))
  /\ section' = NextSection[section]
  /\ UNCHANGED <<raw, rest, process, library>>

final_title ==
  LET t == Find(raw, Marker.BEFORE_TITLE)
      c == Find(raw, Marker.IN_TITLE)
  IN IF t # 0 /\ c > t THEN Strip(SubSeq(raw, t + 3, c - 1)) ELSE <<>>

final_content ==
  LET c == Find(raw, Marker.IN_TITLE)
      m == Find(raw, Marker.IN_CONTENT)
  IN IF c # 0 THEN Strip(SubSeq(raw, c + 3, IF m > c THEN m - 1 ELSE Len(raw)))
     ELSE Strip(raw)

final_comment ==
  LET m == Find(raw, Marker.IN_CONTENT) IN IF m # 0 THEN Strip(From(raw, m + 3)) ELSE <<>>

OrDefault(s) == IF s = <<>> THEN <<Default>> ELSE s

Cut(s) == SubSeq(s, 1, Min({TitleMax, Len(s)}))

\* The last round: what cannot begin a marker is sent.  After a flush the title
\* and the content are read from the whole text; a comment that is blank is
\* replaced by one that names the title.
LastRound ==
  LET hold == IF process = "flush" \/ section = "IN_COMMENT" THEN 0
              ELSE HeldBack(pending, Marker[section])
      keep == Len(pending) - hold
  IN /\ process # "none" /\ ~Marked
     /\ Emit(SubSeq(pending, 1, keep)) /\ pending' = From(pending, keep + 1)
     /\ library' = IF process = "feed" THEN library
                   ELSE [title |-> Cut(OrDefault(final_title)),
                         content |-> final_content,
                         answer |-> OrDefault(sent'["comment"])]
     /\ process' = "none" /\ UNCHANGED <<raw, rest, section>>

LibraryNext == Feed \/ Flush \/ NextMarker \/ LastRound

LibrarySpec == LibraryInit /\ [][LibraryNext]_libraryVars

-----------------------------------------------------------------------------
(* Properties                                                               *)

\* The first title, content and comment markers come in this order, if the last
\* comes at all.
InOrder ==
  LET t == Find(raw, Marker.BEFORE_TITLE)
      c == Find(raw, Marker.IN_TITLE)
      m == Find(raw, Marker.IN_CONTENT)
  IN t # 0 /\ c > t /\ (m = 0 \/ m > c)

\* However the text is cut, what the client was sent of a library is what is
\* stored - the title up to its length, blanks at the end apart - and nothing of
\* a marker is ever sent; both ways to read the comment agree
\* (LibraryStreamRouter.feed and flush against final_title, final_content and
\* final_comment).  A text whose markers are missing or out of order is stored,
\* but not as it was sent.
SectionsWhole ==
  library # <<>> /\ InOrder =>
    /\ library.title = Cut(OrDefault(RStrip(sent.title)))
    /\ library.content = RStrip(sent.content)
    /\ RStrip(library.answer) = OrDefault(final_comment)
=============================================================================
