--------------------------- MODULE UsfmConversion ---------------------------
(***************************************************************************)
(* A USFM file and the verses that are stored of it.  An import walks the  *)
(* document that the grammar makes of a file and gives every verse its     *)
(* words, the headings before it and the paragraphs it opens or crosses;   *)
(* an export writes the verses as a file.  Text is a sequence of words, a  *)
(* paragraph of a verse opens at a number of words instead of a character. *)
(* The grammar is a library: a paragraph ends where the next one starts.   *)
(***************************************************************************)
EXTENDS Naturals, Sequences, SequencesExt

CONSTANTS
    None,
    Stored,         \* the verses that may be stored at first, sequences of rows
    Files,          \* the files that may be imported at first
    MaxParagraphs   \* MAX_VERSE_PARAGRAPHS

VARIABLES
    stored,         \* the verses of a book
    file            \* the file that was exported or is to be imported, or <<>>

vars == <<stored, file>>

(* Paragraphs that carry verse text, headings, and divisions without text.  *)
(* Every other one, like a table, is read for the verses in it only.        *)
Body == {"p", "m", "q1", "q2", "li1", "b"}
Headings == {"s1", "ms1", "r"}
Divisions == {"sd", "sd1"}

(* A file is a sequence of nodes, the content of a paragraph of elements.   *)
Chapter(n) == [type |-> "chapter", number |-> n]
Para(marker, content) == [type |-> "para", marker |-> marker, content |-> content]
Verse(n) == [kind |-> "verse", n |-> n]
Word(n) == [kind |-> "word", n |-> n]

-----------------------------------------------------------------------------
(* Export. *)

Words(content) == SelectSeq(content, LAMBDA e : e.kind = "word")
Numbers(content) == [i \in DOMAIN Words(content) |-> Words(content)[i].n]
AsWords(numbers) == [i \in DOMAIN numbers |-> Word(numbers[i])]

(* The openings at the words from the first to the last of the text.        *)
Bounded(row) == SelectSeq(row.paragraphs, LAMBDA p : p.at = 0 \/ p.at < Len(row.words))
Opening(row) == SelectSeq(Bounded(row), LAMBDA p : p.at = 0)
Within(row) == SelectSeq(Bounded(row), LAMBDA p : p.at > 0)

HeadingNode(h) == Para(h.marker, IF h.marker \in Divisions THEN <<>> ELSE <<Word(h.text)>>)

(* Mutant of Blocks: no paragraph behind a heading within a chapter.        *)
BlocksOfChapter(row, starts) ==
    [i \in DOMAIN row.headings |-> HeadingNode(row.headings[i])]
    \o [i \in DOMAIN Opening(row) |-> Para(Opening(row)[i].marker, <<>>)]
    \o (IF Opening(row) = <<>> /\ starts THEN <<Para("p", <<>>)>> ELSE <<>>)

(* The paragraphs before the number of a verse. *)
Blocks(row, starts) ==
    [i \in DOMAIN row.headings |-> HeadingNode(row.headings[i])]
    \o [i \in DOMAIN Opening(row) |-> Para(Opening(row)[i].marker, <<>>)]
    \o (IF Opening(row) = <<>> /\ (starts \/ row.headings # <<>>) THEN <<Para("p", <<>>)>> ELSE <<>>)

(* What is written behind a paragraph is in it. *)
Behind(nodes, content) == [nodes EXCEPT ![Len(nodes)].content = @ \o content]

(* The number and the words of a verse, of which each paragraph within it   *)
(* takes those up to the next one.                                          *)
VerseBody(row) ==
    LET cuts == <<0>> \o [i \in DOMAIN Within(row) |-> Within(row)[i].at] \o <<Len(row.words)>>
    IN [i \in 1 .. Len(cuts) - 1 |-> AsWords(SubSeq(row.words, cuts[i] + 1, cuts[i + 1]))]

Serialized(nodes, row, starts) ==
    LET body == VerseBody(row)
        before == nodes \o (IF starts THEN <<Chapter(row.chapter)>> ELSE <<>>) \o Blocks(row, starts)
    IN Behind(before, <<Verse(row.verse)>> \o body[1])
       \o [i \in DOMAIN Within(row) |-> Para(Within(row)[i].marker, body[i + 1])]

Exported(rows) ==
    FoldLeft(LAMBDA nodes, i : Serialized(nodes, rows[i], i = 1 \/ rows[i].chapter # rows[IF i = 1 THEN 1 ELSE i - 1].chapter),
             <<>>, [i \in DOMAIN rows |-> i])

-----------------------------------------------------------------------------
(* Import. *)

(* The stretches of a verse in one paragraph each, joined: the words, and   *)
(* the paragraph in which they start and those they cross.                  *)
JoinAll(segments) ==
    LET texts == {i \in DOMAIN segments : segments[i].words # <<>>}
        first == IF texts = {} THEN 1 ELSE CHOOSE i \in texts : \A j \in texts : i <= j
        opener == segments[first]
    IN (IF opener.marker # None /\ (first > 1 \/ opener.opened)
        THEN (IF opener.afterEmpty /\ opener.marker # "p" THEN <<[marker |-> "p", at |-> 0]>> ELSE <<>>)
             \o <<[marker |-> opener.marker, at |-> 0]>>
        ELSE <<>>)
       \o FoldLeft(LAMBDA found, i :
                     IF i \notin texts \/ i = first \/ segments[i].marker = None THEN found
                     ELSE Append(found, [marker |-> segments[i].marker,
                                         at |-> Len(FlattenSeq([j \in 1 .. i - 1 |-> segments[j].words]))]),
                   <<>>, [i \in DOMAIN segments |-> i])

Flush(s) ==
    IF s.current = None THEN s
    ELSE LET c == s.current
             found == JoinAll(c.segments)
         IN [s EXCEPT !.current = None,
                !.rows = Append(@, [chapter |-> c.chapter, verse |-> c.verse, headings |-> c.headings,
                                    words |-> FlattenSeq([i \in DOMAIN c.segments |-> c.segments[i].words]),
                                    paragraphs |-> SubSeq(found, 1, IF Len(found) < MaxParagraphs THEN Len(found) ELSE MaxParagraphs)])]

AddText(s, n) ==
    LET heard == IF s.para = None THEN s ELSE [s EXCEPT !.para.hasWords = TRUE]
        added == [heard EXCEPT !.current.segments[Len(s.current.segments)].words = Append(@, n)]
    IN IF s.current = None THEN heard
       ELSE IF s.para = None THEN added ELSE [added EXCEPT !.para.hasContent = TRUE]

StartVerse(s, n) ==
    LET p == s.para
        opens == p # None /\ ~p.hasContent
        flushed == Flush(s)
        started == [flushed EXCEPT
            !.current = [chapter |-> s.chapter, verse |-> n, headings |-> s.pending,
                         segments |-> <<[words |-> <<>>, marker |-> IF p = None THEN None ELSE p.marker,
                                         opened |-> opens, afterEmpty |-> opens /\ ~p.hasWords /\ p.afterEmpty]>>],
            !.pending = <<>>]
        next == IF s.chapter = None THEN flushed ELSE started
    IN IF p = None THEN next ELSE [next EXCEPT !.para.hasContent = TRUE]

Walk(s, content) ==
    FoldLeft(LAMBDA t, e : IF e.kind = "verse" THEN StartVerse(t, e.n) ELSE AddText(t, e.n), s, content)

FirstVerse(content) ==
    LET verses == {i \in DOMAIN content : content[i].kind = "verse"}
    IN IF verses = {} THEN Len(content) + 1 ELSE CHOOSE i \in verses : \A j \in verses : i <= j
FromVerse(content) == SubSeq(content, FirstVerse(content), Len(content))
BeforeVerse(content) == SubSeq(content, 1, FirstVerse(content) - 1)

WalkBody(s, node) ==
    LET opened == [s EXCEPT
            !.para = [marker |-> node.marker, hasContent |-> FALSE, hasWords |-> FALSE, afterEmpty |-> s.empty],
            !.current = IF @ = None THEN None
                        ELSE [@ EXCEPT !.segments = Append(@, [words |-> <<>>, marker |-> node.marker,
                                                               opened |-> FALSE, afterEmpty |-> FALSE])]]
        walked == Walk(opened, node.content)
    IN [walked EXCEPT !.para = None,
                      !.empty = node.marker = "p" /\ ~walked.para.hasContent /\ ~walked.para.hasWords]

(* Mutant of WalkHeading: the verse before the heading does not end.        *)
WalkHeadingOn(s, node) ==
    LET text == Numbers(BeforeVerse(node.content))
        noted == IF text = <<>> THEN s
                 ELSE [s EXCEPT !.pending = Append(@, [marker |-> node.marker, text |-> text[1]])]
    IN Walk([noted EXCEPT !.empty = FALSE], FromVerse(node.content))

(* The words of a heading wait for the next verse; the verse before ends.   *)
WalkHeading(s, node) ==
    LET text == Numbers(BeforeVerse(node.content))
        flushed == Flush(s)
        noted == IF text = <<>> THEN flushed
                 ELSE [flushed EXCEPT !.pending = Append(@, [marker |-> node.marker, text |-> text[1]])]
    IN Walk([noted EXCEPT !.empty = FALSE], FromVerse(node.content))

WalkNode(s, node) ==
    CASE node.type = "chapter" -> [Flush(s) EXCEPT !.chapter = node.number, !.empty = FALSE]
      [] node.type = "para" /\ node.marker = "b" /\ node.content = <<>> -> s
      [] node.type = "para" /\ node.marker \in Divisions -> Walk([Flush(s) EXCEPT !.empty = FALSE], FromVerse(node.content))
      [] node.type = "para" /\ node.marker \in Headings -> WalkHeading(s, node)
      [] node.type = "para" /\ node.marker \in Body /\ ~(node.marker = "b" /\ node.content = <<>>) -> WalkBody(s, node)
      [] OTHER -> Walk([s EXCEPT !.empty = FALSE], FromVerse(node.content))

Imported(nodes) ==
    Flush(FoldLeft(WalkNode,
                   [rows |-> <<>>, chapter |-> None, current |-> None, pending |-> <<>>, para |-> None, empty |-> FALSE],
                   nodes)).rows

-----------------------------------------------------------------------------
Import ==
    /\ file # <<>>
    /\ stored' = Imported(file)
    /\ file' = <<>>

Export ==
    /\ file = <<>> /\ stored # <<>>
    /\ file' = Exported(stored)
    /\ UNCHANGED stored

Init ==
    \/ stored \in Stored /\ file = <<>>
    \/ stored = <<>> /\ file \in Files

Next == Import \/ Export

Spec == Init /\ [][Next]_vars

-----------------------------------------------------------------------------
(* Properties. *)

(* What comes back of a row: the headings with words; the paragraphs within *)
(* its words, the export's own \p where a chapter starts or a heading ends  *)
(* and the row says nothing, and no more of them than a row may store.      *)
Meant(rows, i) ==
    LET row == rows[i]
        starts == i = 1 \/ rows[i - 1].chapter # row.chapter
        all == (IF Opening(row) = <<>> /\ (starts \/ row.headings # <<>>) THEN <<[marker |-> "p", at |-> 0]>> ELSE <<>>)
               \o Bounded(row)
    IN [row EXCEPT !.headings = SelectSeq(@, LAMBDA h : h.marker \notin Divisions),
                   !.paragraphs = SubSeq(all, 1, IF Len(all) < MaxParagraphs THEN Len(all) ELSE MaxParagraphs)]

(* What is exported and imported again is what was stored: every word with  *)
(* its verse, every heading before it, every paragraph where it opened      *)
(* (usjToVerseTexts "reads imported rows the way it writes its own").       *)
RoundTrip ==
    file # <<>> /\ stored # <<>> => Imported(file) = [i \in DOMAIN stored |-> Meant(stored, i)]

(* The elements of a file with their places. *)
Places(nodes) ==
    FlattenSeq([i \in DOMAIN nodes |->
        IF nodes[i].type = "chapter" THEN <<>>
        ELSE [j \in DOMAIN nodes[i].content |-> [node |-> i, at |-> j, e |-> nodes[i].content[j]]]])

(* Whether the words of a paragraph can be the verse's that began in an     *)
(* earlier one: no chapter, heading or division comes between.              *)
Continues(nodes, from, to) ==
    /\ nodes[to].marker \in Body
    /\ \A k \in from + 1 .. to : nodes[k].type = "para" /\ nodes[k].marker \notin Headings \cup Divisions

(* The import gives every verse the words that follow its number, up to the *)
(* next number, heading, division or chapter, and no others: what stands in *)
(* a table before a number belongs to no verse (usjToVerseTexts).           *)
WordsWithTheirVerse ==
    stored = <<>> /\ file # <<>> =>
        \A rows \in {Imported(file)}, places \in {Places(file)} :
        \A verses \in {{k \in DOMAIN places : places[k].e.kind = "verse"
                                              /\ \E n \in 1 .. places[k].node : file[n].type = "chapter"}} :
        LET Owner(k) == {v \in verses : v < k /\ \A w \in verses : w < k => w <= v}
            Owned(v) == SelectSeq([k \in DOMAIN places |-> k], LAMBDA k :
                /\ places[k].e.kind = "word" /\ Owner(k) = {v}
                /\ \/ places[k].node = places[v].node
                   \/ Continues(file, places[v].node, places[k].node))
            order == SelectSeq([k \in DOMAIN places |-> k], LAMBDA k : k \in verses)
        IN /\ Len(rows) = Len(order)
           /\ \A r \in DOMAIN rows :
                 rows[r].words = [x \in DOMAIN Owned(order[r]) |-> places[Owned(order[r])[x]].e.n]

TypeOK == \A i \in DOMAIN stored : stored[i].chapter # None /\ Len(stored[i].paragraphs) <= MaxParagraphs

ConversionKept == RoundTrip /\ WordsWithTheirVerse
=============================================================================
