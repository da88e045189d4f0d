-------------------------------- MODULE Inimgr --------------------------------
(***************************************************************************)
(* Ini files (src/include/file/inimgr), as operators on the lines of a     *)
(* file.  A file offset is the number of lines before it: what fiomgrTell  *)
(* gives between two lines.  Lines are records of a kind:                  *)
(*   "signature" with "good", "heading" with a name, "entry" with a key    *)
(*   and a value, "other" for what is none of these.                       *)
(***************************************************************************)
EXTENDS Naturals, Sequences, SequencesExt

\* Names are sequences: a word and, for some, a number. INIMGR_DEFAULT_SECTION is none
\* that a heading can have.
Default == <<>>

Signature(good)   == [kind |-> "signature", good |-> good]
Heading(name)     == [kind |-> "heading", name |-> name]
Entry(key, value) == [kind |-> "entry", key |-> key, value |-> value]
Other             == [kind |-> "other"]

-----------------------------------------------------------------------------
(* Loading. *)

\* inimgr_check_sigver of the first line that is neither empty nor a comment.
Signed(lines) ==
  \E i \in DOMAIN lines :
    /\ lines[i] = Signature(TRUE)
    /\ \A j \in 1 .. i - 1 : lines[j].kind = "other"

\* __inimgr_create_section.
NewSection(name, start) == [name |-> name, start |-> start, end |-> 0]

\* One line of the scan of inimgrLoad: the list of sections, and the line's number.
\* Variant: a section ends where its last line begins.
ScanLineShort(found, line) ==
  [at |-> found.at + 1, sections |->
    IF line.kind = "heading" THEN Append(found.sections, NewSection(line.name, found.at + 1))
    ELSE [found.sections EXCEPT ![Len(found.sections)].end = found.at]]
ScanLine(found, line) ==
  [at |-> found.at + 1, sections |->
    IF line.kind = "heading" THEN Append(found.sections, NewSection(line.name, found.at + 1))
    ELSE [found.sections EXCEPT ![Len(found.sections)].end = found.at + 1]]

\* inimgrLoad of a signed file: its sections, with where they begin and end.
SectionsOf(lines) ==
  LET sign == SelectInSeq(lines, LAMBDA l : l.kind = "signature") IN
  FoldLeft(ScanLine, [at |-> sign, sections |-> <<NewSection(Default, sign)>>],
           SubSeq(lines, sign + 1, Len(lines))).sections

\* __inimgr_find_section: the one found last is tried first.
FindSection(sections, last, name) ==
  IF sections[last].name = name THEN last
  ELSE SelectInSeq(sections, LAMBDA s : s.name = name)

\* inimgrReadEntry until it returns false: the entries from "at" to the section's end,
\* whatever other lines there are between, and where reading stops.
ReadEntries(lines, at, section) ==
  [entries |-> SelectSeq(SubSeq(lines, at + 1, section.end), LAMBDA l : l.kind = "entry"),
   at      |-> IF at < section.end THEN section.end ELSE at]

\* __inimgr_set_value of an entry, on a section's entries in memory.
SetValue(entries, new) ==
  LET i == SelectInSeq(entries, LAMBDA e : e.key = new.key)
  IN  IF i = 0 THEN Append(entries, new) ELSE [entries EXCEPT ![i].value = new.value]

\* inimgrLoadSection without a callback: the entries of the first section of a name.
EntriesOf(lines, name) ==
  LET sections == SectionsOf(lines)
      i        == FindSection(sections, 1, name)
  IN  IF i = 0 THEN <<>>
      ELSE FoldLeft(SetValue, <<>>, ReadEntries(lines, sections[i].start, sections[i]).entries)

-----------------------------------------------------------------------------
(* Saving. *)

\* What inimgrSave writes of a section: an empty line unless it is the first thing in
\* the file, the heading and the entries.
SaveSection(written, name, entries) ==
  IF name = Default THEN written \o entries
  ELSE (IF written = <<>> THEN <<>> ELSE written \o <<Other>>) \o <<Heading(name)>> \o entries

\* inimgrSave of a list of sections with their entries, after what is written before.
SaveSections(start, sections) ==
  FoldLeft(LAMBDA written, s : SaveSection(written, s.name, s.entries), start, sections)
Save(sections) == SaveSections(<<Signature(TRUE)>>, sections)
=============================================================================
