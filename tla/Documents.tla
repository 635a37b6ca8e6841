----------------------------- MODULE Documents -----------------------------
(***************************************************************************)
(* How ai-service cuts a knowledge document into chunks.  A document is    *)
(* the sequence of its lines; a line has a kind, read off its first        *)
(* characters, and its cells.  Numbers of a chunk's lines stand for its    *)
(* text, so that two chunks with the same words stay apart.                *)
(***************************************************************************)
EXTENDS Texts

CONSTANTS
    Docs,           \* document files
    Lines,          \* the lines of each: [Docs -> Seq(Line)]
    Markdown,       \* the documents that are Markdown; the others have no headings or tables
    ChunkLines      \* lines of narrative in a chunk (900 runes in the code)

\* question: also a heading that is one; fact: key and value; row: a line between bars.
\* Headings have one level; a line that is no row has one cell.
Line == [kind : {"blank", "heading", "question", "answer", "fact", "row", "separator", "text"},
         cells : Seq(Text)]

Kinds == {"narrative", "fact", "faq"}

\* Its keywords are words of its section and text, which it has anyway.
Paragraph(section, kind, lines) == [section |-> section, kind |-> kind, lines |-> lines]

ASSUME DocumentsAssumption ==
    /\ Lines \in [Docs -> Seq(Line)]
    /\ Markdown \subseteq Docs
    /\ ChunkLines \in Nat \ {0}

----------------------------------------------------------------------------
\* No blank line is left of a document before it is cut.
NormalizeSourceText(d) == SelectSeq(Lines[d], LAMBDA line : line.kind # "blank")

\* The lines of every document as they are cut.
Source == [d \in Docs |-> NormalizeSourceText(d)]

WordsAt(d, i) == UNION ToSet(Source[d][i].cells)

\* Only Markdown has headings and tables; the prefixes of questions and answers count everywhere.
KindOf(d, i) ==
    LET k == Source[d][i].kind IN
    IF d \notin Markdown /\ k \in {"heading", "row", "separator"} THEN "text" ELSE k

IsMarkdownTableLine(d, i) == KindOf(d, i) \in {"row", "separator"}

IsTableHeader(d, i) == KindOf(d, i) = "row" /\ i < Len(Source[d]) /\ KindOf(d, i + 1) = "separator"

\* Under the header and its separator: the rows up to the first other line.
ParseMarkdownTable(d, i) ==
    {j \in i + 2 .. Len(Source[d]) : \A k \in i + 2 .. j : IsMarkdownTableLine(d, k)}

\* The columns a row and its header have in common.
Columns(d, i, row) == DOMAIN Source[d][i].cells \cap DOMAIN Source[d][row].cells

IsKeyValueTable(d, i, row) ==
    LET headers == Source[d][i].cells
    IN {1, 2} \subseteq Columns(d, i, row) /\ headers[1] = {"item"} /\ headers[2] = {"content"}

\* What of a row is said: the first two cells of a key/value table, else every cell with something
\* in it under a header with something in it.  Cells beyond the headers are lost.
TableWords(d, i, row) ==
    LET headers == Source[d][i].cells
        cells == Source[d][row].cells
    IN IF IsKeyValueTable(d, i, row) THEN cells[1] \cup cells[2]
       ELSE UNION {headers[n] \cup cells[n] :
                     n \in {m \in Columns(d, i, row) : headers[m] # {} /\ cells[m] # {}}}

\* A row is a fact whose keys are in the header; one that says nothing is dropped.
BuildTableParagraph(d, section, i, row) ==
    IF ~IsKeyValueTable(d, i, row) /\ TableWords(d, i, row) = {} THEN <<>>
    ELSE <<Paragraph(section, "fact", {i, row})>>

\* The parser between two lines: where it is, what it has buffered, the open question.
Start == [section |-> {}, buffer |-> {}, question |-> 0, answers |-> {}, skip |-> 0, out |-> <<>>]

\* The buffered lines become one narrative paragraph.
Flush(p) ==
    IF p.buffer = {} THEN p
    ELSE [p EXCEPT !.buffer = {}, !.out = Append(@, Paragraph(p.section, "narrative", p.buffer))]

\* A question with answers becomes a paragraph; one without is dropped.
FlushFAQ(p) ==
    [p EXCEPT !.question = 0, !.answers = {},
              !.out = IF p.question = 0 \/ p.answers = {} THEN @
                      ELSE Append(@, Paragraph(p.section, "faq", {p.question} \cup p.answers))]

\* An answer without a question has the form of a fact.
ParseFactParagraph(p, i) ==
    LET flushed == Flush(p)
    IN [flushed EXCEPT !.out = Append(@, Paragraph(p.section, "fact", {i}))]

\* One turn of the loop of extractParagraphs, at line i of document d.  Its branch for a blank line
\* is never taken: so only another question, a heading or a table ends the answers.
ParseLine(d, p, i) ==
    LET kind == KindOf(d, i)
        rows == ParseMarkdownTable(d, i)
        both == FlushFAQ(Flush(p))
        header == IsTableHeader(d, i)
    IN IF i <= p.skip THEN p
       ELSE CASE header ->
                   [both EXCEPT !.skip = i + 1 + Cardinality(rows),
                                !.out = @ \o FlattenSeq([n \in 1 .. Cardinality(rows) |->
                                                BuildTableParagraph(d, p.section, i, i + 1 + n)])]
              [] ~header /\ IsMarkdownTableLine(d, i) -> [both EXCEPT !.buffer = {i}]
              [] kind = "heading" -> [both EXCEPT !.section = WordsAt(d, i)]
              [] kind = "question" -> [both EXCEPT !.question = i]
              [] kind \in {"fact", "answer", "text"} ->
                   IF p.question # 0 THEN [p EXCEPT !.answers = @ \cup {i}]
                   ELSE IF kind # "text" THEN ParseFactParagraph(p, i)
                   ELSE [p EXCEPT !.buffer = @ \cup {i}]

ExtractParagraphs(d) ==
    LET end == FoldLeft(LAMBDA p, i : ParseLine(d, p, i), Start, [i \in 1 .. Len(Source[d]) |-> i])
    IN FlushFAQ(Flush(end)).out

\* Facts and FAQs stay alone; neighbouring narrative of one section is joined up to the size of
\* a chunk, and the next chunk repeats the end of a full one.
AppendParagraph(chunks, p) ==
    LET last == chunks[Len(chunks)]
        full == Cardinality(last.lines \cup p.lines) > ChunkLines
    IN IF \/ chunks = <<>> \/ p.kind # "narrative"
          \/ last.kind # "narrative" \/ last.section # p.section
       THEN Append(chunks, p)
       ELSE IF full
       THEN Append(chunks, [p EXCEPT !.lines = @ \cup {Max(last.lines)}])
       ELSE [chunks EXCEPT ![Len(chunks)].lines = @ \cup p.lines]

ChunkDocument(d) == FoldLeft(AppendParagraph, <<>>, ExtractParagraphs(d))

\* The chunks of each document, without duplicates.
Chunks == [d \in Docs |-> ToSet(ChunkDocument(d))]

\* The words of a chunk's text: two lines of a fact are a header and a row.
TextWords(d, c) ==
    IF c.kind = "fact" /\ Cardinality(c.lines) = 2 THEN TableWords(d, Min(c.lines), Max(c.lines))
    ELSE UNION {WordsAt(d, i) : i \in c.lines}

\* What a search can match: a chunk's section, text and keywords.
ChunkWords(d, c) == c.section \cup TextWords(d, c)
=============================================================================
