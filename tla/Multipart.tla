------------------------------- MODULE Multipart -------------------------------
(***************************************************************************)
(* multipart$ of @marblejs/middleware-multipart: what becomes of the parts of  *)
(* a form. Busboy hands them over in their order; files are collected, or        *)
(* given to the stream handler of the options, side by side and end in any        *)
(* order, while fields are there at once.                                       *)
(*                                                                            *)
(* A part is [is: "file" or "field", name, value, long: its size]; options are   *)
(* [files: the acceptable names, handler: "memory", "stream" or "failing",         *)
(*  maxFileSize, maxFileCount, maxFieldSize, maxFieldCount].                     *)
(***************************************************************************)
EXTENDS Naturals, Sequences, FiniteSets, TLC

\* isProperMethod and isMultipart.
ShouldParseMultipart(method, type) == method \in {"POST", "PUT"} /\ type = "form-data"

\* An upload: the parts read, the files in progress, req.files and the fields of req.body.
Upload == [read |-> 0, pending |-> {}, files |-> <<>>, fields |-> <<>>]

Numbered(parts, n, kind) == Cardinality({i \in 1..n : parts[i].is = kind})

\* busboy's filesLimit and fieldsLimit at the n-th part.
OverCount(options, parts, n) ==
    Numbered(parts, n, parts[n].is) >
        (IF parts[n].is = "file" THEN options.maxFileCount ELSE options.maxFieldCount)

\* shouldParseFieldname.
Acceptable(options, part) == part.is = "field" \/ part.name \in options.files

\* Mutant: the error of the limit stream ends only that stream.
PartRefused_NotOverCount(options, parts, n) ==
    IF ~Acceptable(options, parts[n]) THEN {[status |-> 412, bound |-> FALSE]} ELSE {}

\* Why the n-th part ends the whole upload: the limits tell their request, the
\* errors about one file do not.
PartRefused(options, parts, n) ==
    CASE OverCount(options, parts, n) -> {[status |-> 412, bound |-> TRUE]}
      [] ~OverCount(options, parts, n) /\ ~Acceptable(options, parts[n]) ->
            {[status |-> 412, bound |-> FALSE]}
      [] OTHER -> {}

\* busboy cuts a field at its size limit, and nobody asks whether it did.
FieldValue(options, part) ==
    <<"string", IF part.long > options.maxFieldSize THEN <<"cut", part.value>> ELSE part.value>>

\* parseField adds the field at once; a file begins.
PartTaken(options, parts, n, upload) ==
    IF parts[n].is = "file"
    THEN [upload EXCEPT !.read = n, !.pending = @ \union {n}]
    ELSE [upload EXCEPT !.read = n,
                        !.fields = (parts[n].name :> FieldValue(options, parts[n])) @@ @]

\* How the end of a file ends the upload: fileSizeLimit, before or after the handler
\* has failed.
FileRefused(options, part) ==
    (IF part.long > options.maxFileSize THEN {[status |-> 412, bound |-> FALSE]} ELSE {})
    \union (IF options.handler = "failing" THEN {[status |-> 500, bound |-> TRUE]} ELSE {})

\* setRequestData: the buffer and its size, or what the handler gave; an entry of the
\* same name is replaced.
FileTaken(options, parts, n, upload) ==
    [upload EXCEPT !.pending = @ \ {n},
        !.files = (parts[n].name :>
            [of |-> n, size |-> IF options.handler = "memory" THEN parts[n].long ELSE 0]) @@ @]

\* forkJoin: busboy has finished, and so have all files.
Uploaded(parts, upload) == upload.read = Len(parts) /\ upload.pending = {}

\* req.body with the fields.
FormBody(body, upload) ==
    IF upload.fields = <<>> THEN body ELSE <<"object", upload.fields>>
==============================================================================
