------------------------------ MODULE Payload ------------------------------
(***************************************************************************)
(* What a click on Submit hands in: the notebook re-read by the kernel and *)
(* the student's own outputs from marimo's session file (client            *)
(* notebook.py, __init__.py, widget.py), and the page the worker makes of  *)
(* the two without running anything (worker/snapshot_render.py).           *)
(*                                                                         *)
(* Three processes act: the browser's widget, the kernel, which answers    *)
(* messages between the cells it runs, and marimo's server, which writes   *)
(* the session file a moment after outputs change.  The notebook has two   *)
(* cells, and the Grader no source= of its own.  Messages between kernel   *)
(* and browser keep their order; each request carries, for the properties  *)
(* alone, what there was when Submit was clicked.                          *)
(***************************************************************************)
EXTENDS Naturals, Sequences, FiniteSets

CONSTANTS
  Nothing,
  Code,           \* what a cell may say
  MaxSaves,       \* bound: edits saved
  MaxCellRuns,    \* bound: cells run
  MaxWrites,      \* bound: writes of the session file
  MaxSubmits      \* bound: clicks on Submit

Cell == {1, 2}
Notebook == [Cell -> Code]

ASSUME PayloadAssumption ==
  Nothing \notin Code /\ {MaxSaves, MaxCellRuns, MaxWrites, MaxSubmits} \subseteq Nat

VARIABLES
  disk,           \* the notebook as last saved, and how often it was
  outputs,        \* each cell's output: the code that produced it
  snapshot,       \* the session file
  seen,           \* the source the Grader last read, if it ever could
  runtime,        \* what the kernel is doing, and for which request
  to_kernel, to_page,   \* messages under way
  widget,         \* the Submit button
  body            \* the last body posted

payloadVars == <<disk, outputs, snapshot, seen, runtime, to_kernel, to_page, widget, body>>
files == <<disk, outputs, snapshot>>

NoOutput == [cell |-> 0, code |-> Nothing]
NoSession == [state |-> "none", cells |-> <<>>, writes |-> 0]
NoClick == [saves |-> 0, writes |-> 0]
NoRequest == [click |-> NoClick, read |-> FALSE]

\* read_notebook_source: the file as it is, nothing when no path leads to a readable one.
SourceRead == {disk, Nothing}

PayloadInit ==
  /\ disk \in [text : Notebook, saves : {0}]
  /\ outputs = [c \in Cell |-> NoOutput]
  /\ snapshot = NoSession
  /\ seen \in SourceRead
  /\ runtime = [at |-> "idle", runs |-> 0, cell |-> 0, request |-> NoRequest]
  /\ to_kernel = <<>> /\ to_page = <<>>
  /\ widget = [at |-> "ready", click |-> NoClick, late |-> FALSE, payload |-> seen, submits |-> 0]
  /\ body = Nothing

-----------------------------------------------------------------------------
(* The student, and marimo.                                                *)

Save(c, code) ==
  /\ disk.saves < MaxSaves /\ disk.text[c] # code
  /\ disk' = [text |-> [disk.text EXCEPT ![c] = code], saves |-> disk.saves + 1]
  /\ UNCHANGED <<outputs, snapshot, seen, runtime, to_kernel, to_page, widget, body>>

RunCell(c) ==
  /\ runtime.at = "idle" /\ runtime.runs < MaxCellRuns
  /\ runtime' = [runtime EXCEPT !.at = "running", !.runs = @ + 1, !.cell = c]
  /\ UNCHANGED <<files, seen, to_kernel, to_page, widget, body>>

CellDone ==
  /\ runtime.at = "running"
  /\ outputs' = [outputs EXCEPT ![runtime.cell] =
       [cell |-> runtime.cell, code |-> disk.text[runtime.cell]]]
  /\ runtime' = [runtime EXCEPT !.at = "idle", !.cell = 0]
  /\ UNCHANGED <<disk, snapshot, seen, to_kernel, to_page, widget, body>>

\* The outputs there are, in document order.
Kept(c) == IF outputs[c] = NoOutput THEN <<>> ELSE <<outputs[c]>>
Saved == Kept(1) \o Kept(2)

\* The server rewrites the session file when outputs have changed, in place.
WriteBegins ==
  /\ snapshot.state # "torn" /\ snapshot.cells # Saved /\ snapshot.writes < MaxWrites
  /\ snapshot' = [snapshot EXCEPT !.state = "torn", !.writes = @ + 1]
  /\ UNCHANGED <<disk, outputs, seen, runtime, to_kernel, to_page, widget, body>>

WriteEnds ==
  /\ snapshot.state = "torn"
  /\ snapshot' = [snapshot EXCEPT !.state = "whole", !.cells = Saved]
  /\ UNCHANGED <<disk, outputs, seen, runtime, to_kernel, to_page, widget, body>>

-----------------------------------------------------------------------------
(* The widget: a click asks the kernel for a fresh payload.                *)

\* Answers to earlier clicks are still to come.
Outstanding ==
  \/ to_kernel # <<>> \/ runtime.at \in {"waiting", "reading"}
  \/ \E i \in 1..Len(to_page) : to_page[i].type = "payload"

\* What there is to hand in at this moment.
Now == [saves |-> disk.saves, writes |-> IF snapshot.state = "whole" THEN snapshot.writes ELSE 0]

PressSubmit ==
  /\ widget.at = "ready" /\ widget.submits < MaxSubmits
  /\ widget' = [widget EXCEPT !.at = "asking", !.click = Now, !.late = Outstanding, !.submits = @ + 1]
  /\ body' = Nothing
  /\ to_kernel' = Append(to_kernel, Now)
  /\ UNCHANGED <<files, seen, runtime, to_page>>

\* submit() posts the payload trait as it is, with what the kernel sent alongside; without
\* a notebook it ends with an error and posts nothing.
Finished(extra, request) ==
  /\ body' = IF widget.payload = Nothing THEN Nothing
             ELSE [source |-> widget.payload, outputs |-> extra,
                   click |-> widget.click, late |-> widget.late, request |-> request]
  /\ widget' = [widget EXCEPT !.at = "ready", !.click = NoClick, !.late = FALSE]

\* The handler takes the first payload message that comes, whichever click it answers; one
\* that comes when nobody asks is dropped.
Receive ==
  LET message == Head(to_page)
  IN  /\ to_page # <<>> /\ to_page' = Tail(to_page)
      /\ CASE message.type = "trait" ->
                  widget' = [widget EXCEPT !.payload = message.source] /\ UNCHANGED body
           [] message.type = "payload" /\ widget.at = "asking" ->
                  Finished(message.extra, message.request)
           [] OTHER -> UNCHANGED <<widget, body>>
      /\ UNCHANGED <<files, seen, runtime, to_kernel>>

\* Mistake: the page waits for the kernel however long it takes.
NeverGivesUp == FALSE

\* After twelve seconds the page submits what it has.
GivesUp == widget.at = "asking"

Timeout ==
  /\ GivesUp
  /\ Finished(Nothing, Nothing)
  /\ UNCHANGED <<files, seen, runtime, to_kernel, to_page>>

-----------------------------------------------------------------------------
(* The kernel: _on_custom_msg, build_payload, snapshot_extra.              *)

\* Grader.read_source falls back to the source it last read.  A payload_factory that raises
\* leaves the trait as it was; the answer is sent all the same.
Refresh ==
  /\ runtime.at = "idle" /\ to_kernel # <<>>
  /\ to_kernel' = Tail(to_kernel)
  /\ \E fresh \in SourceRead, built \in BOOLEAN :
       /\ seen' = IF fresh = Nothing THEN seen ELSE fresh
       /\ to_page' = IF built THEN Append(to_page, [type |-> "trait", source |-> seen']) ELSE to_page
       /\ runtime' = [runtime EXCEPT !.at = "waiting",
                        !.request = [click |-> Head(to_kernel), read |-> built /\ fresh # Nothing]]
  /\ UNCHANGED <<files, widget, body>>

\* read_session_snapshot waits for a fresh write, at most two and a half seconds.
Waited ==
  /\ runtime.at = "waiting"
  /\ runtime' = [runtime EXCEPT !.at = "reading"]
  /\ UNCHANGED <<files, seen, to_kernel, to_page, widget, body>>

\* A file caught in mid-write does not parse.
Parses == snapshot.state = "whole"

Answer(extra) ==
  /\ to_page' = Append(to_page, [type |-> "payload", extra |-> extra, request |-> runtime.request])
  /\ runtime' = [runtime EXCEPT !.at = "idle", !.request = NoRequest]

\* A missing or oversized file is left out of the submission, and one that three tries
\* in a row found half-written.
ReadSession ==
  /\ runtime.at = "reading"
  /\ \/ Answer(Nothing)
     \/ /\ snapshot.state # "none" /\ Parses
        /\ Answer([cells |-> snapshot.cells, state |-> snapshot.state, write |-> snapshot.writes])
  /\ UNCHANGED <<files, seen, to_kernel, widget, body>>

-----------------------------------------------------------------------------
(* The worker's page of a body: snapshot_render.                           *)

\* The occurrence number of entry i among the entries of its code.
Nth(codes, i) == Cardinality({j \in 1..(i - 1) : codes[j] = codes[i]})

\* Mistake: cells are matched by their code alone.
ByCodeAlone(codes, i) == 0

Occurrence(codes, i) == Nth(codes, i)

\* The outputs shown under cell c: those of the same code and occurrence.
ShownUnder(c, text, cells) ==
  LET codes == [i \in DOMAIN cells |-> cells[i].code]
  IN  {cells[i] : i \in {i \in DOMAIN cells :
         cells[i].code = text[c] /\ Occurrence(codes, i) = Occurrence(<<text[1], text[2]>>, c)}}

PayloadNext ==
  \/ \E c \in Cell : (\E code \in Code : Save(c, code)) \/ RunCell(c)
  \/ CellDone \/ WriteBegins \/ WriteEnds
  \/ PressSubmit \/ Receive \/ Timeout
  \/ Refresh \/ Waited \/ ReadSession

PayloadSpec == PayloadInit /\ [][PayloadNext]_payloadVars

\* The browser's timer fires; nothing is assumed of the kernel, whose cells may never end.
PayloadFairness == WF_payloadVars(Receive) /\ WF_payloadVars(Timeout)

-----------------------------------------------------------------------------
(* Properties.                                                             *)

\* Every piece is of its kind, and what the server is sent has a notebook and parses.
PayloadTypeOK ==
  /\ disk.text \in Notebook /\ disk.saves \in 0..MaxSaves
  /\ \A source \in {seen, widget.payload} \ {Nothing} : source.saves <= disk.saves
  /\ snapshot.state \in {"none", "torn", "whole"}
  /\ runtime.at \in {"idle", "running", "waiting", "reading"}
  /\ widget.at \in {"ready", "asking"}
  /\ body # Nothing => /\ body.source # Nothing
                       /\ body.outputs # Nothing => body.outputs.state = "whole"

\* Grader.submit_button ("When clicked, the notebook is re-read and marimo's session
\* snapshot goes with it"): an answer of the kernel hands in a notebook, if it could read
\* one, at least as new as what was saved, and outputs at least as new as what the session
\* file held, when the click it answers was made; and that is the click it ends, unless
\* answers to earlier ones were still to come.  No promise covers a click the page's
\* patience ended.
BodyIsOfTheClick ==
  /\ PayloadTypeOK
  /\ body # Nothing /\ body.request # Nothing =>
       /\ body.request.read => body.source.saves >= body.request.click.saves
       /\ body.outputs # Nothing => body.outputs.write >= body.request.click.writes
       /\ ~body.late => body.request.click = body.click

\* snapshot_render ("nothing stale is passed off as current"): no cell shows the output of
\* other code, at most one output is shown under it, and when nothing was edited between
\* the runs and the click every cell that ran shows its own.
PageShowsItsOwn ==
  body # Nothing /\ body.outputs # Nothing =>
    LET text == body.source.text
        cells == body.outputs.cells
    IN  \A c \in Cell :
          /\ \A o \in ShownUnder(c, text, cells) : o.code = text[c]
          /\ Cardinality(ShownUnder(c, text, cells)) <= 1
          /\ (\A d \in Cell : \E i \in DOMAIN cells : cells[i].cell = d /\ cells[i].code = text[d])
               => \A o \in ShownUnder(c, text, cells) : o.cell = c

\* A click is not held up by a kernel that is busy or gone: it ends, and where a notebook
\* was ever read something is submitted.
ClickEnds ==
  /\ widget.at = "asking" ~> widget.at = "ready"
  /\ widget.at = "asking" /\ widget.payload # Nothing ~> body # Nothing

\* submit_button and SUBMIT_JS's refresh(): every click ends, with a notebook handed in
\* where there is one, and what is handed in belongs to the click that asked for it.
ClickIsServed == []BodyIsOfTheClick /\ ClickEnds
=============================================================================
