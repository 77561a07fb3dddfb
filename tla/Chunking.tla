--------------------------------- MODULE Chunking ---------------------------------
(* Cutting a document into child chunks for the vector index and parent    *)
(* chunks for the text store (infrastructure/chunking_service.py).         *)
(*                                                                         *)
(* A text is a sequence of tokens: <<id, k>> is the k-th token of the line *)
(* with that id, ids of body lines are positive, a line break is one token *)
(* and so is every element of a heading path.                              *)
EXTENDS Markdown, FiniteSetsExt

CONSTANTS
  MaxLevel,           \* the levels of headings
  Weight,             \* tokens of a line, by kind
  PartOf,             \* the character a token is a part of, if it is no whole one
  Titles,             \* the names a file may have
  Lines,              \* the lines it may hold: their kind, level and text
  MaxLines,           \* bound: lines in a file
  MaxChild,           \* max_child_tokens
  SoftChild,          \* 0.8 of it, from which on blocks are not added
  LeastBudget,        \* the least body tokens of a forced cut
  Tiny,               \* chunks below are merged
  TargetParent, SoftParent, Overlap

VARIABLES format, file, document, children, parents, step
vars == <<format, file, document, children, parents, step>>

Sep == <<0, 0>>
LineTokens(l) == IF l.kind = "heading" THEN <<<<l.id, 1>>>> ELSE [k \in 1..Weight[l.kind] |-> <<l.id, k>>]
Join(texts, sep) ==
  LET join[n \in 0..Len(texts)] ==
        IF n = 0 THEN <<>> ELSE IF join[n - 1] = <<>> THEN texts[n] ELSE join[n - 1] \o sep \o texts[n]
  IN join[Len(texts)]
NotBlank(lines) == Picked(lines, {i \in DOMAIN lines : lines[i].kind # "blank"})
Text(lines) == LET body == NotBlank(lines) IN Join([i \in DOMAIN body |-> LineTokens(body[i])], <<Sep>>)

(******************************** Sections *********************************)

(* A heading opens a section; sections without blocks are dropped, and a   *)
(* document of headings alone is one paragraph.                            *)
Finalize(sections, path, blocks) ==
  IF blocks = <<>> THEN sections ELSE Append(sections, [path |-> path, blocks |-> blocks])

ParseSections(title, lines) ==
  LET all == ParseMarkdownBlocks(lines)
      Read(s, b) ==
        CASE b.type # "heading" -> [s EXCEPT !.blocks = Append(@, b)]
          [] b.type = "heading" /\ IsH1Of(title, b.lines[1]) ->
               [sections |-> Finalize(s.sections, s.path, s.blocks), stack |-> <<>>,
                path |-> <<title>>, blocks |-> <<>>]
          [] OTHER ->
               LET stack == PushHeading(s.stack, b.lines[1])
               IN [sections |-> Finalize(s.sections, s.path, s.blocks), stack |-> stack,
                   path |-> HeadingPath(title, stack), blocks |-> <<>>]
      read[n \in 0..Len(all)] ==
        IF n = 0 THEN [sections |-> <<>>, stack |-> <<>>, path |-> <<title>>, blocks |-> <<>>]
        ELSE Read(read[n - 1], all[n])
      end == read[Len(all)]
      sections == Finalize(end.sections, end.path, end.blocks)
      whole == [path |-> <<title>>, blocks |-> <<[type |-> "paragraph", lines |-> NotBlank(lines)]>>]
  IN IF sections = <<>> THEN <<whole>> ELSE sections

(* Blocks that carry their path are grouped by it; headings only set it.   *)
ParseSemanticSections(blocks) ==
  LET Read(s, b) ==
        LET sections == IF s.path = b.path THEN s.sections ELSE Finalize(s.sections, s.path, s.blocks)
            open == IF s.path = b.path THEN s.blocks ELSE <<>>
        IN [sections |-> sections, path |-> b.path,
            blocks |-> IF b.type = "heading" THEN open
                       ELSE Append(open, [type |-> b.type, lines |-> b.lines])]
      read[n \in 0..Len(blocks)] ==
        IF n = 0 THEN [sections |-> <<>>, path |-> <<>>, blocks |-> <<>>]
        ELSE Read(read[n - 1], blocks[n])
      end == read[Len(blocks)]
  IN Finalize(end.sections, end.path, end.blocks)

SectionsOf(doc) ==
  LET semantic == ParseSemanticSections(doc.semantic)
  IN IF semantic # <<>> THEN semantic ELSE ParseSections(doc.title, doc.content)

(****************************** Child chunks *******************************)

Prefix(path) == [k \in DOMAIN path |-> <<0, k>>]
Content(path, body) == Prefix(path) \o <<Sep>> \o body
Chunk(path, body) == [path |-> path, text |-> Content(path, body)]
Fits(path, body) == Len(Content(path, body)) <= MaxChild

(* A token may hold some bytes of a character only, decoded without the    *)
(* others they are lost: a replacement character stands for the token.     *)
Spoilt(t) == <<t[1], -t[2]>>
Whole(t) == IF t[2] < 0 THEN Spoilt(t) ELSE t
Repaired(text) == [i \in DOMAIN text |-> Whole(text[i])]
(* What is left of a text that is cut into pieces of so many tokens.        *)
Decoded(text, budget) ==
  LET Piece(i) == (i - 1) \div budget
      SharesCharacter(i, j) ==
        {text[i], text[j]} \subseteq DOMAIN PartOf /\ PartOf[text[i]] = PartOf[text[j]]
      IsCut(i) == \E j \in DOMAIN text : SharesCharacter(i, j) /\ Piece(j) # Piece(i)
  IN [i \in DOMAIN text |-> IF IsCut(i) THEN Spoilt(text[i]) ELSE text[i]]

(* The last resort: cut every so many tokens, with room for the prefix.    *)
ForceSplit(path, text) ==
  LET budget == Max({LeastBudget, MaxChild - Len(Prefix(path)) - 1})
      parts == (Len(text) + budget - 1) \div budget
      decoded == Decoded(text, budget)
  IN [i \in 1..parts |->
        Chunk(path, SubSeq(decoded, (i - 1) * budget + 1, Min({i * budget, Len(text)})))]
(* One chunk; of a body that is too long only the first part is kept.      *)
RawChunk(path, texts, sep) ==
  LET body == Join(texts, sep)
  IN IF texts = <<>> THEN <<>>
     ELSE IF Fits(path, body) THEN <<Chunk(path, body)>> ELSE <<Head(ForceSplit(path, body))>>

(* A block that is too long is cut between its lines, greedily.            *)
SplitOversizedBlock(path, block) ==
  LET sep == IF block.type \in {"table", "list", "code"} THEN <<Sep>> ELSE <<>>
      Add(s, l) ==
        LET unit == LineTokens(l)
            flushed == s.chunks \o RawChunk(path, s.current, sep)
        IN CASE Fits(path, Join(Append(s.current, unit), sep)) ->
                  [s EXCEPT !.current = Append(@, unit)]
             [] ~Fits(path, unit) -> [chunks |-> flushed \o ForceSplit(path, unit), current |-> <<>>]
             [] OTHER -> [chunks |-> flushed, current |-> <<unit>>]
      body == NotBlank(block.lines)
      read[n \in 0..Len(body)] ==
        IF n = 0 THEN [chunks |-> <<>>, current |-> <<>>] ELSE Add(read[n - 1], body[n])
      end == read[Len(body)]
  IN end.chunks \o RawChunk(path, end.current, sep)

(* Variant: the blocks collected so far come after the block that is cut.  *)
ChunkSectionUnflushed(section) ==
  LET Add(s, b) ==
        LET text == Text(b.lines)
            size == Len(Content(section.path, Join(Append(s.current, text), <<Sep>>)))
            flushed == s.chunks \o RawChunk(section.path, s.current, <<Sep>>)
        IN CASE size <= MaxChild /\ (size <= SoftChild \/ s.current = <<>>) ->
                  [s EXCEPT !.current = Append(@, text)]
             [] ~Fits(section.path, text) -> [s EXCEPT !.chunks = @ \o SplitOversizedBlock(section.path, b)]
             [] OTHER -> [chunks |-> flushed, current |-> <<text>>]
      read[n \in 0..Len(section.blocks)] ==
        IF n = 0 THEN [chunks |-> <<>>, current |-> <<>>] ELSE Add(read[n - 1], section.blocks[n])
      end == read[Len(section.blocks)]
  IN end.chunks \o RawChunk(section.path, end.current, <<Sep>>)

(* Blocks are collected up to the soft limit; the first may exceed it.     *)
ChunkSection(section) ==
  LET Add(s, b) ==
        LET text == Text(b.lines)
            size == Len(Content(section.path, Join(Append(s.current, text), <<Sep>>)))
            flushed == s.chunks \o RawChunk(section.path, s.current, <<Sep>>)
        IN CASE size <= MaxChild /\ (size <= SoftChild \/ s.current = <<>>) ->
                  [s EXCEPT !.current = Append(@, text)]
             [] ~Fits(section.path, text) ->
                  [chunks |-> flushed \o SplitOversizedBlock(section.path, b), current |-> <<>>]
             [] OTHER -> [chunks |-> flushed, current |-> <<text>>]
      read[n \in 0..Len(section.blocks)] ==
        IF n = 0 THEN [chunks |-> <<>>, current |-> <<>>] ELSE Add(read[n - 1], section.blocks[n])
      end == read[Len(section.blocks)]
  IN end.chunks \o RawChunk(section.path, end.current, <<Sep>>)

(* A tiny chunk joins the chunk before it, with its prefix.                *)
MergeTinyChunks(chunks) ==
  LET Add(merged, c) ==
        IF /\ merged # <<>> /\ Len(c.text) < Tiny /\ c.path = Last(merged).path
           /\ Len(Last(merged).text) + Len(c.text) <= MaxChild
        THEN Append(Front(merged), [path |-> c.path, text |-> Last(merged).text \o <<Sep>> \o c.text])
        ELSE Append(merged, c)
      read[n \in 0..Len(chunks)] == IF n = 0 THEN <<>> ELSE Add(read[n - 1], chunks[n])
  IN read[Len(chunks)]

ChildChunks(doc) ==
  LET sections == SectionsOf(doc)
  IN MergeTinyChunks(FlattenSeq([i \in DOMAIN sections |-> ChunkSection(sections[i])]))

(****************************** Parent chunks ******************************)

TokensUpTo(kids) ==
  LET sum[n \in 0..Len(kids)] == IF n = 0 THEN 0 ELSE sum[n - 1] + Len(kids[n].text)
  IN  sum
Tokens(kids, from, to) == TokensUpTo(kids)[to] - TokensUpTo(kids)[from - 1]
(* The last child of the group that starts at i: as many as the target     *)
(* allows, and at least one.                                               *)
GroupEnd(kids, i) == Max({i} \cup {j \in i..Len(kids) : Tokens(kids, i, j) <= TargetParent})
(* Variant: the next group shares the last child whatever its size.         *)
NextStartShared(kids, i, j) == IF j > i THEN j ELSE j + 1
(* The next group shares the last child if it is small and not alone.      *)
NextStart(kids, i, j) == IF j > i /\ Len(kids[j].text) <= 2 * Overlap THEN j ELSE j + 1

(* The groups of children, as intervals, one parent each.                  *)
ParentChunks(kids) ==
  LET groups[i \in 1..Len(kids)] ==
        LET j == GroupEnd(kids, i)
        IN  <<i..j>> \o (IF j = Len(kids) THEN <<>> ELSE groups[NextStart(kids, i, j)])
  IN IF kids = <<>> THEN <<>>
     ELSE IF Tokens(kids, 1, Len(kids)) <= SoftParent THEN <<1..Len(kids)>> ELSE groups[1]
(* A child belongs to the first parent that holds it.                      *)
Owner(c) == Min({p \in DOMAIN parents : c \in parents[p]})

(********************************* The steps *******************************)

Formats == {"html", "markdown", "text"}
Numbered(l, id) == [kind |-> l.kind, level |-> l.level, text |-> l.text, id |-> id]

Init ==
  /\ format \in Formats
  /\ \E n \in 1..MaxLines : \E lines \in [1..n -> Lines] :
       /\ NotBlank(lines) # <<>>
       /\ file = [i \in 1..n |-> Numbered(lines[i], i)]
  /\ \E title \in Titles : document = [title |-> title, content |-> <<>>, semantic |-> <<>>]
  /\ children = <<>> /\ parents = <<>> /\ step = "uploaded"

Parse ==
  /\ step = "uploaded" /\ step' = "parsed"
  /\ document' = ParsedDocument(document.title, format, file)
  /\ UNCHANGED <<format, file, children, parents>>

(* Pages without blocks, and those the converter takes for no article, are *)
(* not indexed.                                                            *)
SkipIndexing ==
  /\ step = "parsed" /\ format = "html" /\ step' = "skipped"
  /\ UNCHANGED <<format, file, document, children, parents>>

ChunkDocument ==
  /\ step = "parsed" /\ step' = "chunked"
  /\ format = "html" => document.semantic # <<>>
  /\ children' = ChildChunks(document)
  /\ parents' = ParentChunks(ChildChunks(document))
  /\ UNCHANGED <<format, file, document>>

Next == Parse \/ SkipIndexing \/ ChunkDocument
Spec == Init /\ [][Next]_vars

(******************************* Properties ********************************)

(* Steps are taken in order and parents hold children that exist.          *)
TypeOK ==
  /\ format \in Formats /\ step \in {"uploaded", "parsed", "skipped", "chunked"}
  /\ \A p \in DOMAIN parents : parents[p] \subseteq DOMAIN children /\ parents[p] # {}

(* Chunking repeats and reorders nothing, and loses only the characters    *)
(* that a forced cut divides: the body tokens of the children, in order,   *)
(* are those of the document's lines other than its headings, or all of    *)
(* them when it has nothing else, and a token is spoilt only if it is part *)
(* of a character (_chunk_section, _split_oversized_block,                 *)
(* _force_split_text, _merge_tiny_chunks).                                 *)
Body(text) == Picked(text, {i \in DOMAIN text : text[i][1] > 0})
BodyLines(lines) ==
  LET blocks == ParseMarkdownBlocks(lines)
      bodies == Picked(blocks, {i \in DOMAIN blocks : blocks[i].type # "heading"})
      all == IF bodies = <<>> THEN blocks ELSE bodies
  IN FlattenSeq([i \in DOMAIN all |-> all[i].lines])
ChunkingKeepsText ==
  step = "chunked" =>
    /\ FlattenSeq([c \in DOMAIN children |-> Body(Repaired(children[c].text))])
         = Body(Text(BodyLines(document.content)))
    /\ \A c \in DOMAIN children : \A i \in DOMAIN children[c].text :
         LET t == children[c].text[i] IN t[2] < 0 => Whole(t) \in DOMAIN PartOf

(* Parents cover the children in order, share at most one child with the   *)
(* next, own at least one of theirs, and stay below the target unless they *)
(* hold a single child or the whole document (_build_parent_chunks,        *)
(* _assign_parent_ids).                                                    *)
ParentsCoverChildren ==
  step = "chunked" =>
    /\ UNION ToSet(parents) = DOMAIN children
    /\ \A p \in DOMAIN parents :
         /\ \E c \in parents[p] : Owner(c) = p
         /\ \/ Len(parents) = 1 \/ Cardinality(parents[p]) = 1
            \/ Tokens(children, Min(parents[p]), Max(parents[p])) <= TargetParent
    /\ \A p \in 2..Len(parents) :
         Min(parents[p]) \in {Max(parents[p - 1]), Max(parents[p - 1]) + 1}

(* Normalising an article again changes nothing: HTML goes through it when *)
(* the best Markdown is chosen and again when the blocks are extracted, and *)
(* the title is there once (_normalize_article_markdown).  A title without *)
(* a name and one that starts a footer are left out: the second pass keeps *)
(* the first one's title as an H2, or takes the article for a footer.      *)
NormalizingIsStable ==
  step # "uploaded" /\ format = "html" /\ document.title \notin Unnamed \cup FooterTexts =>
    /\ document.content = NormalizeArticle(document.title, file)
    /\ Cardinality({i \in DOMAIN document.content : document.content[i].id = 0
                      /\ document.content[i].kind = "heading"}) = 1
===================================================================================
