------------------------------- MODULE Lpacct -------------------------------
(***************************************************************************)
(* Printer accounting.  For each attempt to print a job the scheduler      *)
(* starts the filter lpacct_filter and the backend lpacct_confirm at once. *)
(* The filter passes the document on, has Ghostscript render a copy of it, *)
(* adds up the ink and puts a row into the table printlog; the backend     *)
(* runs the real one and, when that was successful, marks the rows of the  *)
(* job as confirmed.                                                       *)
(***************************************************************************)
EXTENDS PxCost

CONSTANTS
  Docs,         \* [colorspace, pages, file]: what Ghostscript makes of a document,
                \* and whether the scheduler hands it over as a file (argc is 7)
  BufferSize,   \* bytes in a chunk
  Dpi,          \* the option DPI
  Faults,       \* what may go wrong: a subset of AllFaults
  MaxAttempts   \* bound on how often the scheduler tries

AllFaults == {"tmp", "tee", "gs", "fork", "sql", "backend"}

\* get_colorspace(), from the description of the printer
colorspaces == {"CMYK", "CMYPK", "CMY", "GRAY"}

Page == [type : {"PPM", "PGM"}, bytes : Seq(0 .. 255)]

ASSUME LpacctAssumption ==
  /\ \A d \in Docs : /\ d.colorspace \in colorspaces
                     /\ d.file \in BOOLEAN
                     /\ d.pages \in Seq(Page)
                     /\ \A i \in DOMAIN d.pages :
                          d.pages[i].type = "PPM" => Len(d.pages[i].bytes) % 3 = 0
  /\ BufferSize \in Nat \ {0} /\ BufferSize % 3 = 0
  /\ Dpi \in Nat \ {0}
  /\ Faults \subseteq AllFaults /\ MaxAttempts \in Nat

VARIABLES
  doc,        \* the document
  attempt,    \* number of the attempt
  filter,     \* what the filter does next, or how it ended
  backend,    \* the same for lpacct_confirm
  out,        \* the whole pages that Ghostscript will write and the bytes of one more,
              \* -1 if not even its header
  image,      \* the page in work: its number, the bytes still to be read of it
              \* (rem_bytes, mpxm_chunk_next()) and those of the chunk at hand
  page_cost, all_cost, npages,
  tmp,        \* whether the copy of the document is there
  log,        \* syslog: the attempts with an entry, and those with a second one
  printlog,   \* the rows, one at most for each attempt
  printed     \* history: the attempts of which the real backend was successful

filterVars == <<filter, out, image, page_cost, all_cost, npages, tmp>>
vars == <<doc, attempt, filterVars, backend, log, printlog, printed>>

NoImage == [n |-> 0, read |-> 0, chunk |-> <<>>, want |-> 0]

FilterInit ==
  /\ filter = "tee" /\ out = [pages |-> 0, bytes |-> -1] /\ image = NoImage
  /\ page_cost = Zero /\ all_cost = Zero /\ npages = 0 /\ tmp = FALSE

Init ==
  /\ doc \in Docs /\ attempt = 1 /\ FilterInit /\ backend = "start"
  /\ log = {} /\ printlog = {} /\ printed = {}

Ended == {"success", "failure"}

-----------------------------------------------------------------------------
(* The filter *)

\* The other process, the scheduler and the records of the system stay.
Filter(at, to) ==
  /\ filter = at /\ filter' = to
  /\ UNCHANGED <<doc, attempt, backend, printed>>

\* pr_exit(): the copy of the document stays.
pr_exit ==
  /\ filter' = "failure"
  /\ UNCHANGED <<doc, attempt, backend, printed, out, image, page_cost, all_cost, npages, tmp,
                 log, printlog>>

\* lpacct_filter_main(): generic_tee_named(), or mkstemp() and generic_tee(),
\* after which standard output is closed.  A copy that failed is left behind.
tee ==
  /\ \/ Filter("tee", "gs")
     \/ "tee" \in Faults /\ Filter("tee", "failure")
  /\ tmp' = ~doc.file
  /\ UNCHANGED <<out, image, page_cost, all_cost, npages, log, printlog>>

mkstemp_failed == "tmp" \in Faults /\ ~doc.file /\ filter = "tee" /\ pr_exit

\* The dots per inch that Ghostscript is asked for
Resolution == IF Dpi < 2 THEN 2 ELSE Dpi

\* ghostscript_init().  Ghostscript may die at any time; when it has ended
\* already, however well, the filter exits.
ghostscript_init ==
  \/ /\ Filter("gs", "header")
     /\ \/ out' = [pages |-> Len(doc.pages), bytes |-> -1]
        \/ /\ "gs" \in Faults
           /\ \E n \in 0 .. Len(doc.pages) - 1 :
                \E b \in -1 .. Len(doc.pages[n + 1].bytes) - 1 :
                  out' = [pages |-> n, bytes |-> b]
     /\ UNCHANGED <<image, page_cost, all_cost, npages, tmp, log, printlog>>
  \/ /\ "fork" \in Faults
     /\ filter = "gs" /\ pr_exit

min2(a, b) == IF a < b THEN a ELSE b

\* What of page n Ghostscript writes
PageSize(n) == Len(doc.pages[n].bytes)
There(n) == IF n <= out.pages THEN PageSize(n) ELSE out.bytes

\* A chunk begins: block_size of mpxm_chunk_next()
Block(n, read) == min2(PageSize(n) - read, BufferSize)

\* mpxm_get_header(): FALSE at the end of the stream, even in the middle of a
\* header
mpxm_get_header ==
  LET n == image.n + 1
  IN  \/ /\ n <= out.pages \/ (n = out.pages + 1 /\ out.bytes >= 0)
         /\ Filter("header", "chunk")
         /\ image' = [n |-> n, read |-> 0, chunk |-> <<>>, want |-> Block(n, 0)]
         /\ page_cost' = Zero
         /\ UNCHANGED <<out, all_cost, npages, tmp, log, printlog>>
      \/ /\ n = out.pages + 1 /\ out.bytes = -1
         /\ Filter("header", "syslog")
         /\ UNCHANGED <<out, image, page_cost, all_cost, npages, tmp, log, printlog>>

\* mutant: a read that returns nothing is tried again
premature_Again == UNCHANGED vars

\* mutant: the error is returned and not looked at
premature_Returned ==
  /\ Filter("chunk", "exit")
  /\ UNCHANGED <<out, image, page_cost, all_cost, npages, tmp, log, printlog>>

\* The pipe is closed in the middle of a page: -EPIPE, with which
\* mpxm_process() exits.
premature == pr_exit

\* mutant: one read() per chunk
Want_One(got) == 0

\* read_size of mpxm_chunk_next() after a read() of so many bytes
Want(got) == image.want - got

\* A read() of mpxm_chunk_next() takes what is in the pipe, some of what is
\* wanted.
mpxm_chunk_next ==
  LET page == doc.pages[image.n]
      left == There(image.n) - image.read
  IN  /\ filter = "chunk" /\ image.want > 0
      /\ \/ /\ left = 0 /\ premature
         \/ \E got \in 1 .. min2(image.want, left) :
              /\ Filter("chunk", "chunk")
              /\ image' = [image EXCEPT
                             !.read = @ + got, !.want = Want(got),
                             !.chunk = @ \o SubSeq(page.bytes, image.read + 1, image.read + got)]
              /\ UNCHANGED <<out, page_cost, all_cost, npages, tmp, log, printlog>>

\* The analyzer takes the chunk and asks for the next one, if there is more.
mpxm_analyzer ==
  LET page == doc.pages[image.n]
  IN  /\ image.want = 0
      /\ Filter("chunk", IF image.read = PageSize(image.n) THEN "sum" ELSE "chunk")
      /\ page_cost' = Plus(page_cost, analyzer(doc.colorspace, image.chunk, page.type))
      /\ image' = [image EXCEPT !.chunk = <<>>, !.want = Block(image.n, image.read)]
      /\ UNCHANGED <<out, all_cost, npages, tmp, log, printlog>>

cost_add ==
  /\ Filter("sum", "header")
  /\ all_cost' = Plus(all_cost, page_cost) /\ npages' = npages + 1
  /\ UNCHANGED <<out, image, page_cost, tmp, log, printlog>>

acct_syslog ==
  /\ Filter("syslog", "mysql")
  /\ log' = log \cup {<<attempt, "printed">>}
  /\ UNCHANGED <<out, image, page_cost, all_cost, npages, tmp, printlog>>

\* Droplets into the area that they cover: a droplet is a 255th of a pixel of
\* Dpi to the inch.  The areas here are in 255ths of a square inch; the sheets
\* of A4 that the code makes of them differ by a constant factor.
drop2bl(cost) == [ink \in DOMAIN cost |-> [num |-> cost[ink], den |-> Dpi * Dpi]]

\* When the database fails, the filter goes on without a row.
acct_mysql ==
  /\ Filter("mysql", "exit")
  /\ \/ printlog' = printlog \cup {[attempt |-> attempt, colorspace |-> doc.colorspace,
                                    cost |-> drop2bl(all_cost), pages |-> npages,
                                    confirmed |-> FALSE]}
     \/ "sql" \in Faults /\ UNCHANGED printlog
  /\ UNCHANGED <<out, image, page_cost, all_cost, npages, tmp, log>>

\* ghostscript_exit() and the rest of lpacct_filter_main()
ghostscript_exit ==
  /\ Filter("exit", "success")
  /\ tmp' = FALSE
  /\ UNCHANGED <<out, image, page_cost, all_cost, npages, log, printlog>>

-----------------------------------------------------------------------------
(* lpacct_confirm *)

Backend(at, to) ==
  /\ backend = at /\ backend' = to
  /\ UNCHANGED <<doc, attempt, filterVars>>

\* lpacct_sql_start() before the real backend is started
confirm_start ==
  \/ Backend("start", "print") /\ UNCHANGED <<log, printlog, printed>>
  \/ "sql" \in Faults /\ Backend("start", "failure") /\ UNCHANGED <<log, printlog, printed>>

\* mutant: the exit status of the real backend is not looked at
accepted_Any(successful) == TRUE

\* wait(): the real backend exited with success
accepted(successful) == successful

\* The real backend, which ends with success only after the end of its input.
real_backend ==
  \E successful \in BOOLEAN :
    /\ successful => filter # "tee"
    /\ successful \/ "backend" \in Faults
    /\ Backend("print", IF accepted(successful) THEN "syslog" ELSE "failure")
    /\ printed' = IF successful THEN printed \cup {attempt} ELSE printed
    /\ UNCHANGED <<log, printlog>>

confirm_syslog ==
  /\ Backend("syslog", "mysql")
  /\ log' = log \cup {<<attempt, "confirmed">>}
  /\ UNCHANGED <<printlog, printed>>

\* The rows of the job and the user that are there: of earlier attempts, too,
\* and of this one if the filter was faster.
confirm_mysql ==
  /\ Backend("mysql", "success")
  /\ \/ printlog' = {[row EXCEPT !.confirmed = TRUE] : row \in printlog}
     \/ "sql" \in Faults /\ UNCHANGED printlog
  /\ UNCHANGED <<log, printed>>

\* The scheduler tries again after the backend has failed.
Retry ==
  /\ filter \in Ended /\ backend = "failure" /\ attempt < MaxAttempts
  /\ attempt' = attempt + 1
  /\ filter' = "tee" /\ out' = [pages |-> 0, bytes |-> -1] /\ image' = NoImage
  /\ page_cost' = Zero /\ all_cost' = Zero /\ npages' = 0 /\ tmp' = FALSE
  /\ backend' = "start"
  /\ UNCHANGED <<doc, log, printlog, printed>>

-----------------------------------------------------------------------------
Filtering ==
  \/ tee \/ mkstemp_failed \/ ghostscript_init
  \/ mpxm_get_header \/ mpxm_chunk_next \/ mpxm_analyzer \/ cost_add
  \/ acct_syslog \/ acct_mysql \/ ghostscript_exit

Confirming == confirm_start \/ real_backend \/ confirm_syslog \/ confirm_mysql

Next == Filtering \/ Confirming \/ Retry

\* The processes are scheduled, and the real backend ends.
Spec == Init /\ [][Next]_vars /\ WF_vars(Filtering) /\ WF_vars(Confirming)

-----------------------------------------------------------------------------
\* So many droplets, in parts of which there are n to one, cover the area.
Covered(area, n, parts) == n * area.num * (Resolution * Resolution) = parts * area.den

(* A row has the number of the pages that Ghostscript wrote to the end, in    *)
(* whatever portions the pipe delivered them, never a part of a page, and the *)
(* area that their ink covers: the droplets of their pixels at the            *)
(* resolution at which they were rendered.  Grayscale values of a PPM image   *)
(* may be one droplet too high for each chunk.  With a DPI of 1, pages are    *)
(* rendered at 2.                                                             *)
CostRight ==
  \A row \in printlog :
    row.attempt = attempt /\ Dpi >= 2 =>
      LET n == row.pages
          all(ink)   == Sum([i \in 1 .. n |-> PageCost(doc.colorspace, doc.pages[i].bytes)[ink]])
          gray       == Sum([i \in 1 .. n |-> GrayCost(doc.pages[i].type, doc.pages[i].bytes)])
          chunks     == Sum([i \in 1 .. n |-> (PageSize(i) + BufferSize - 1) \div BufferSize])
      IN  /\ n = out.pages /\ out.bytes = -1
          /\ IF doc.colorspace = "GRAY"
             THEN \E more \in 0 .. 255 * chunks : Covered(row.cost.k, 256, gray + more)
             ELSE \A ink \in DOMAIN Zero : Covered(row.cost[ink], 1, all(ink))

(* A filter that exits with success has made its entry in the system log     *)
(* and has removed its copy of the document.                                 *)
EntryMade == filter = "success" => <<attempt, "printed">> \in log /\ ~tmp

(* Rows are confirmed, and the system log says so, only when the job has     *)
(* been sent to the printer with success: pay for what was printed.          *)
ConfirmedPrinted ==
  /\ (\E row \in printlog : row.confirmed) => printed # {}
  /\ \A n \in 1 .. MaxAttempts : <<n, "confirmed">> \in log => n \in printed

(* The filter and the backend end, however Ghostscript, the database and the *)
(* real backend fare.                                                        *)
JobEnds == <>[](filter \in Ended /\ backend \in Ended)
=============================================================================
