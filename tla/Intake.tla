---- MODULE Intake ----
(***************************************************************************)
(* Which uploads are admitted, and what text is read from them             *)
(* (features/documents/validation.py, infrastructure/extraction).          *)
(*                                                                         *)
(* An upload is judged by its name, declared type, size and first bytes;   *)
(* what those let through may still hold no text, or text only OCR can     *)
(* see.  OCR may be switched on and off, and its engine be missing, by the *)
(* time a stored file is read, which re-indexing does again.               *)
(***************************************************************************)
EXTENDS Naturals, FiniteSets

CONSTANTS Uploads,        \* uploads
          MAX_BYTES,      \* max_upload_size_mb
          MAX_PAGES,      \* pages OCR reads
          MaxChanges      \* bound: times the deployment changes

VARIABLES ocr_enabled,    \* the setting
          engine,         \* Tesseract and its packages are installed
          document,       \* each upload: its file and what became of it
          changes         \* deployments so far

vars == <<ocr_enabled, engine, document, changes>>

(* ALLOWED_TYPES: the canonical type of an extension. *)
Canonical == [pdf |-> "pdf", docx |-> "docx", xlsx |-> "xlsx", txt |-> "text",
              csv |-> "csv", png |-> "png", jpg |-> "jpeg", jpeg |-> "jpeg"]
RequiresOcr == {"png", "jpeg"}
Allowed_extensions(ocr) == {e \in DOMAIN Canonical : ocr \/ Canonical[e] \notin RequiresOcr}
Declared(e) == {Canonical[e], "octet", "none"} \cup (IF e = "csv" THEN {"text"} ELSE {})

(* What may be sent: "holds" is what the bytes are, a zip container being  *)
(* a DOCX, an XLSX or neither; "words" the pages with a text layer.        *)
Holds == {"pdf", "docx", "xlsx", "zip", "utf8", "png", "jpeg", "binary", "damaged pdf"}
Files == [name : DOMAIN Canonical \cup {"exe", "none"},
          declared : {"pdf", "csv", "octet", "none"},
          holds : Holds, bytes : {0, MAX_BYTES, MAX_BYTES + 1},
          pages : {1, MAX_PAGES + 1}, words : BOOLEAN, legible : BOOLEAN]

NoFile == [name |-> "none", declared |-> "none", holds |-> "binary", bytes |-> 0, pages |-> 1,
           words |-> FALSE, legible |-> FALSE]
Absent == [at |-> "absent", file |-> NoFile, mime |-> "none", by |-> "none", read |-> 0]

Init == /\ ocr_enabled \in BOOLEAN
        /\ engine \in BOOLEAN
        /\ document = [u \in Uploads |-> Absent]
        /\ changes = 0

----------------------------------------------------------------------------
(* Validation. *)

(* matches_content: the magic bytes of the canonical type. *)
MatchesContent(mime, holds) ==
    CASE mime = "pdf" -> holds \in {"pdf", "damaged pdf"}
      [] mime \in RequiresOcr -> holds = mime
      [] mime \in {"docx", "xlsx"} -> holds \in {"docx", "xlsx", "zip"}
      [] OTHER -> holds = "utf8"

(* Mutant: whether OCR is on is left to the extraction. *)
AdmittedUngated(f) ==
    /\ f.name \in Allowed_extensions(TRUE)
    /\ f.declared \in Declared(f.name)
    /\ f.bytes \in 1..MAX_BYTES
    /\ MatchesContent(Canonical[f.name], f.holds)

(* validate_upload; the router reads one byte past the limit at most. *)
Admitted(f) ==
    /\ f.name \in Allowed_extensions(ocr_enabled)
    /\ f.declared \in Declared(f.name)
    /\ f.bytes \in 1..MAX_BYTES
    /\ MatchesContent(Canonical[f.name], f.holds)

Upload(u) ==
    /\ document[u].at = "absent"
    /\ \E f \in Files :
          document' = [document EXCEPT ![u] =
              IF Admitted(f) THEN [Absent EXCEPT !.at = "stored", !.file = f, !.mime = Canonical[f.name]]
              ELSE [Absent EXCEPT !.at = "refused"]]
    /\ UNCHANGED <<ocr_enabled, engine, changes>>

----------------------------------------------------------------------------
(* Extraction: how many pages each way of reading finds text on, or 0 for  *)
(* a TextExtractionError.                                                  *)

ByParser(mime, f) ==
    IF /\ f.words
       /\ \/ mime = f.holds
          \/ mime \in {"text", "csv"} /\ f.holds = "utf8"
    THEN f.pages ELSE 0

(* OcrTextExtractor, for images, which are one page, and for PDFs.         *)
ByOcr(f) ==
    IF ~ocr_enabled \/ ~engine \/ ~f.legible THEN 0
    ELSE IF f.holds = "pdf" THEN (IF f.pages > MAX_PAGES THEN MAX_PAGES ELSE f.pages)
    ELSE IF f.holds \in RequiresOcr THEN 1 ELSE 0

(* extractor_for: a PDF is read by OCR if it opens and has no text layer.  *)
Way(mime, f) == IF mime \in RequiresOcr \/ (mime = "pdf" /\ f.holds = "pdf" /\ ~f.words)
                THEN "ocr" ELSE "parser"

Extract(u) ==
    LET d == document[u]
        way == Way(d.mime, d.file)
        read == IF way = "ocr" THEN ByOcr(d.file) ELSE ByParser(d.mime, d.file)
    IN  /\ d.at = "stored"
        /\ document' = [document EXCEPT ![u].at = IF read = 0 THEN "failed" ELSE "indexed",
                                        ![u].by = way, ![u].read = read]
        /\ UNCHANGED <<ocr_enabled, engine, changes>>

(* The stored file is read again; its chunks are gone first. *)
Reindex(u) ==
    /\ document[u].at \in {"failed", "indexed"}
    /\ changes > 0
    /\ document' = [document EXCEPT ![u].at = "stored", ![u].read = 0]
    /\ UNCHANGED <<ocr_enabled, engine, changes>>

(* A restart with another setting or another image. *)
Reconfigure ==
    /\ changes < MaxChanges
    /\ changes' = changes + 1
    /\ ocr_enabled' \in BOOLEAN
    /\ engine' \in BOOLEAN
    /\ UNCHANGED document

Next == \/ \E u \in Uploads : Upload(u) \/ Extract(u) \/ Reindex(u)
        \/ Reconfigure

Spec == Init /\ [][Next]_vars

----------------------------------------------------------------------------
(* Properties. *)

(* What is admitted can be read: while the deployment has not changed, an  *)
(* upload fails only for what is in the file, or because OCR was promised  *)
(* without its engine, and never because its kind needs OCR that is off,   *)
(* for which validation is there ("accepting a file the pipeline is        *)
(* certain to fail on is a worse experience").  What is indexed was read   *)
(* from the file's own content, whole unless OCR met its page limit, and a *)
(* text layer is never left for OCR.                                       *)
AdmittedIsReadable ==
    \A u \in Uploads :
       LET d == document[u]
           f == d.file IN
       /\ d.at = "failed" /\ changes = 0 =>
             \/ d.by = "parser" /\ (~f.words \/ f.holds # d.mime)
             \/ d.by = "ocr" /\ (~f.legible \/ ~engine \/ d.mime = "pdf")
       /\ d.at = "indexed" =>
             /\ f.holds = (IF d.mime \in {"text", "csv"} THEN "utf8" ELSE d.mime)
             /\ d.read = f.pages \/ (d.by = "ocr" /\ d.read = IF f.holds = "pdf" THEN MAX_PAGES ELSE 1)
             /\ d.by = "ocr" => ~(f.holds = "pdf" /\ f.words)
       /\ d.at = "refused" \/ d.at = "absent" \/ f.bytes \in 1..MAX_BYTES
====
