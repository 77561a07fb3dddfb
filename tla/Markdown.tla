--------------------------------- MODULE Markdown ---------------------------------
(* What an uploaded file becomes before it is chunked: the clean-up of an  *)
(* article's Markdown, its blocks, and the heading path of every block     *)
(* (infrastructure/markdown_converter.py, infrastructure/parsers).         *)
(*                                                                         *)
(* A line is a record of its kind, its level and text when it is a         *)
(* heading, and its id in the file.  The texts of body lines are left out: *)
(* nothing below looks at them.                                            *)
EXTENDS Integers, Sequences, FiniteSets, SequencesExt, Selection

CONSTANTS
  Unnamed,            \* texts of marks alone, that normalise to nothing
  FooterTexts         \* texts that start a list of related posts

(* Kinds of line: "noise" is a share or copyright line, "footer" starts a  *)
(* list of related posts, "long" is a paragraph longer than a chunk.       *)
Prose == {"text", "long", "indent"}
Heading(level, text, id) == [kind |-> "heading", level |-> level, text |-> text, id |-> id]
TitleLine(title) == Heading(1, title, 0)
BlankLine == [kind |-> "blank", level |-> 0, text |-> "", id |-> 0]

(* Headings are compared by what is left of them without their marks, and  *)
(* a title of which nothing is left is found nowhere.                      *)
Key(text) == IF text \in Unnamed THEN "" ELSE text
IsH1Of(title, l) == l.kind = "heading" /\ l.level = 1 /\ Key(l.text) = Key(title)
IsTitle(title, l) == Key(title) # "" /\ IsH1Of(title, l)

(*************************** Cleaning the Markdown *************************)

(* A heading starts the related posts too, the title of the article as well. *)
StartsFooter(l) == l.kind = "footer" \/ (l.kind = "heading" /\ l.text \in FooterTexts)

(* The text ends where the first footer starts; noise lines go.            *)
StripResidualNoise(lines) ==
  Picked(lines, {i \in DOMAIN lines :
                   lines[i].kind # "noise" /\ \A j \in 1..i : ~StartsFooter(lines[j])})

Fences(lines, upto) == {i \in 1..upto : lines[i].kind = "fence"}
IsOdd(S) == Cardinality(S) % 2 = 1

(* Lines of a code block that is closed, its fences included.              *)
InClosedCode(lines, i) ==
  LET n == Cardinality(Fences(lines, i))
      opens == IF lines[i].kind = "fence" /\ n % 2 = 0 THEN n - 1 ELSE n
  IN opens % 2 = 1 /\ Cardinality(Fences(lines, Len(lines))) > opens

(* Blank lines around every heading and closed code block, one at most, and *)
(* none at either end.                                                     *)
Sanitize(lines) ==
  LET Around(i) ==
        LET before == lines[i].kind = "fence" /\ InClosedCode(lines, i)
                        /\ IsOdd(Fences(lines, i))
            after  == lines[i].kind = "fence" /\ InClosedCode(lines, i)
                        /\ ~IsOdd(Fences(lines, i))
            alone  == lines[i].kind = "heading" /\ ~InClosedCode(lines, i)
        IN (IF before \/ alone THEN <<BlankLine>> ELSE <<>>) \o <<lines[i]>>
             \o (IF after \/ alone THEN <<BlankLine>> ELSE <<>>)
      spaced == FlattenSeq([i \in DOMAIN lines |-> Around(i)])
      IsBlank(i) == spaced[i].kind = "blank"
  IN Picked(spaced, {i \in DOMAIN spaced :
                       \/ ~IsBlank(i)
                       \/ i > 1 /\ ~IsBlank(i - 1) /\ \E j \in i..Len(spaced) : ~IsBlank(j)})

IsH1(lines, i) ==
  lines[i].kind = "heading" /\ lines[i].level = 1 /\ ~IsOdd(Fences(lines, i))
(* Variant: an H1 that repeats the title is demoted like the others.       *)
DemoteAllHeadings(title, lines) ==
  [i \in DOMAIN lines |-> IF IsH1(lines, i) THEN [lines[i] EXCEPT !.level = 2] ELSE lines[i]]

(* Outside code, the first H1 goes if it repeats the title and every other *)
(* H1 becomes an H2.                                                       *)
NormalizeHeadingLevels(title, lines) ==
  LET IsRepeated(i) == IsTitle(title, lines[i]) /\ \A j \in 1..(i - 1) : ~IsH1(lines, j)
      Line(i) == CASE ~IsH1(lines, i) -> <<lines[i]>>
                   [] IsH1(lines, i) /\ IsRepeated(i) -> <<>>
                   [] OTHER -> <<[lines[i] EXCEPT !.level = 2]>>
  IN FlattenSeq([i \in DOMAIN lines |-> Line(i)])

NormalizeArticle(title, lines) ==
  LET body == Sanitize(NormalizeHeadingLevels(title, Sanitize(StripResidualNoise(lines))))
  IN IF body = <<>> THEN <<TitleLine(title)>> ELSE <<TitleLine(title), BlankLine>> \o body

(********************************* Blocks **********************************)

BlockOf == [fence |-> "code", heading |-> "heading", row |-> "table", item |-> "list",
            quote |-> "quote", text |-> "paragraph", long |-> "paragraph", indent |-> "paragraph",
            noise |-> "paragraph", footer |-> "paragraph"]
Kinds == DOMAIN BlockOf \cup {"blank"}
(* What goes on with an open block; a list keeps its indented lines.       *)
Continues == [none |-> {}, heading |-> {}, table |-> {"row"}, list |-> {"item", "indent"},
              quote |-> {"quote"}, paragraph |-> Prose \cup {"noise", "footer"}]

(* A code block runs to the closing fence or to the end of the text, blank *)
(* lines close every other block.                                          *)
ParseMarkdownBlocks(lines) ==
  LET Extend(blocks, l) == [blocks EXCEPT ![Len(blocks)].lines = Append(@, l)]
      Read(s, l) ==
        CASE s.open = "code" ->
               [blocks |-> Extend(s.blocks, l), open |-> IF l.kind = "fence" THEN "none" ELSE "code"]
          [] s.open # "code" /\ l.kind = "blank" -> [s EXCEPT !.open = "none"]
          [] s.open # "code" /\ l.kind \in Continues[s.open] -> [s EXCEPT !.blocks = Extend(@, l)]
          [] OTHER -> [blocks |-> Append(s.blocks, [type |-> BlockOf[l.kind], lines |-> <<l>>]),
                       open |-> BlockOf[l.kind]]
      read[n \in 0..Len(lines)] ==
        IF n = 0 THEN [blocks |-> <<>>, open |-> "none"] ELSE Read(read[n - 1], lines[n])
  IN read[Len(lines)].blocks

(* A heading stands in a path once, one without a name whenever it comes.   *)
DedupeHeadingPath(path) ==
  Picked(path, {i \in DOMAIN path :
                  Key(path[i]) = "" \/ \A j \in 1..i - 1 : Key(path[j]) # Key(path[i])})
(* The stack holds the headings a block stands under, levels increasing.   *)
PushHeading(stack, h) == Append(Picked(stack, {i \in DOMAIN stack : stack[i].level < h.level}), h)
HeadingPath(title, stack) == DedupeHeadingPath(<<title>> \o [i \in DOMAIN stack |-> stack[i].text])

(* The blocks with their heading paths; the title itself is not a block.   *)
ExtractSemanticBlocks(title, lines) ==
  LET all == ParseMarkdownBlocks(lines)
      Annotate(s, b) ==
        LET stack == CASE b.type # "heading" -> s.stack
                       [] b.type = "heading" /\ IsTitle(title, b.lines[1]) -> <<>>
                       [] OTHER -> PushHeading(s.stack, b.lines[1])
            block == [type |-> b.type, lines |-> b.lines, path |-> HeadingPath(title, stack)]
        IN [stack |-> stack,
            blocks |-> IF IsTitle(title, b.lines[1]) /\ b.type = "heading" THEN s.blocks
                       ELSE Append(s.blocks, block)]
      read[n \in 0..Len(all)] ==
        IF n = 0 THEN [stack |-> <<>>, blocks |-> <<>>] ELSE Annotate(read[n - 1], all[n])
  IN read[Len(all)].blocks

(******************************** The parser *******************************)

(* An HTML file is normalised twice and carries its semantic blocks, a text *)
(* file gets a title, a Markdown file is taken as it is.                   *)
Normalised(title, lines) == NormalizeArticle(title, NormalizeArticle(title, lines))
ParsedDocument(title, format, lines) ==
  LET Parsed(content, semantic) == [title |-> title, content |-> content, semantic |-> semantic]
      article == Normalised(title, lines)
  IN CASE format = "html" -> Parsed(article, ExtractSemanticBlocks(title, article))
       [] format = "text" -> Parsed(<<TitleLine(title), BlankLine>> \o lines, <<>>)
       [] format = "markdown" -> Parsed(lines, <<>>)
===================================================================================
