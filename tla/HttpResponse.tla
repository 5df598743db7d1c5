----------------------------- MODULE HttpResponse -----------------------------
(***************************************************************************)
(* One http_response object and the files http_response_file makes: its    *)
(* fields, and one operator for each member function that changes them.    *)
(* Module HttpReceive adds the engine and the application that call them.  *)
(*                                                                         *)
(* Text is a sequence of tokens: a token stands for a run of characters    *)
(* that no property looks into, and Len counts tokens where the code       *)
(* counts bytes.  A URL is known by its file part, all that setURL takes.  *)
(***************************************************************************)
EXTENDS Naturals, Sequences, FiniteSets

CONSTANTS
  Names,   \* file parts of URLs
  NoName,  \* the empty file part
  Kinds    \* the classes in use, "memory" and "file"

ASSUME ResponseAssumption ==
  /\ IsFiniteSet(Names) /\ NoName \notin Names
  /\ Kinds \subseteq {"memory", "file"}

FileParts == Names \cup {NoName}

\* i = 0: the file part itself; i > 0: the file part followed by ".i".
Path(name, i) == <<name, i>>
NoPath == Path(NoName, 0)

VARIABLES
  kind,       \* http_response ("memory") or http_response_file ("file")
  version, status, description,
  headers,    \* maps each key present to its value
  body, body_size, progress,
  url,
  filename, opened, filepath,
  disk        \* maps each path that exists to the contents of its file

metaVars == <<version, status, description, headers>>
bodyVars == <<body, body_size, progress>>
fileVars == <<filename, opened, filepath, disk>>
responseVars == <<kind, metaVars, bodyVars, url, fileVars>>

\* What both constructors leave, and files other programs left on the disk; the
\* class that never looks at the disk finds it empty.
ResponseInit ==
  /\ kind \in Kinds
  /\ version = <<"HTTP/1.0">> /\ status = 0 /\ description = <<"OK">>
  /\ headers = << >>
  /\ body = << >> /\ body_size = 0 /\ progress = 0
  /\ url = NoName
  /\ filename = NoName /\ opened = FALSE /\ filepath = NoPath
  /\ \E there \in IF kind = "file" THEN SUBSET Names ELSE {{}} :
       disk = [p \in {Path(n, 0) : n \in there} |-> <<"old">>]

\* std::map::insert keeps the entries a map has.
InsertAll(m, new) ==
  [k \in DOMAIN m \cup DOMAIN new |-> IF k \in DOMAIN m THEN m[k] ELSE new[k]]

-------------------------------------------------------------------------------

CloseFileBug == UNCHANGED <<filename, opened, filepath>>
\* The last thing it does, closing the stream, may throw: see CloseMayThrow.
CloseFile ==
  IF kind = "file"
  THEN opened' = FALSE /\ filepath' = NoPath /\ filename' = NoName
  ELSE UNCHANGED <<filename, opened, filepath>>

\* The stream was told to throw, and closing an open file may fail.
CloseMayThrow == kind = "file" /\ opened

\* http_response_file::completed; in the base class it does nothing.
Completed == CloseFile

HeadersAfterResetBug == headers
HeadersAfterReset == << >>
ResetResponse ==
  /\ CloseFile
  /\ version' = <<"HTTP/1.0">> /\ status' = 0 /\ description' = <<"OK">>
  /\ headers' = HeadersAfterReset
  /\ body' = << >> /\ body_size' = 0 /\ progress' = 0
  /\ url' = NoName
  /\ UNCHANGED <<kind, disk>>

\* http_response_file::reset closes the file first: when that throws, the rest of
\* the response stays as it is.
ResetResponseThrows ==
  /\ CloseMayThrow
  /\ CloseFile
  /\ UNCHANGED <<kind, metaVars, bodyVars, url, disk>>

\* The file part of a URL with a host is never missing, only empty.
SetURL(u) ==
  /\ url' = u
  /\ filename' = IF kind = "file" THEN u ELSE filename

ProgressAfterByteBug == Len(body) + 1
ProgressAfterByte == progress + 1
SetBody(c) ==
  /\ body' = Append(body, c)
  /\ progress' = ProgressAfterByte
  /\ UNCHANGED body_size

\* The first of name, name.1, name.2, ... that does not exist.
FreePathBug(name) == Path(name, 0)
FreePath(name) ==
  LET free == {i \in 0..Cardinality(DOMAIN disk) : Path(name, i) \notin DOMAIN disk}
  IN  Path(name, CHOOSE i \in free : \A j \in free : i <= j)

\* The paths that exists() is asked about on the way there.
AskedPaths(name) ==
  {Path(name, i) : i \in {i \in 0..Cardinality(DOMAIN disk) :
                            \A j \in 0..(i - 1) : Path(name, j) \in DOMAIN disk}}

\* The file OpenFile() makes sure of, and its contents before the write.
OpenPath == IF opened THEN filepath ELSE FreePath(filename)
Contents == IF opened THEN disk[filepath] ELSE << >>

WriteToFile(data) ==
  /\ opened' = TRUE
  /\ filepath' = OpenPath
  /\ disk' = [p \in DOMAIN disk \cup {OpenPath} |->
                IF p = OpenPath THEN Contents \o data ELSE disk[p]]

BodyAfterWriteBug == body
BodyAfterWrite == << >>

\* OpenFile() answers true, and the body goes from memory to the file.
FlushWrites ==
  /\ kind = "file"
  /\ opened \/ filename # NoName
  /\ WriteToFile(body)
  /\ body' = BodyAfterWrite
  /\ UNCHANGED filename

\* The base class, or OpenFile() answers false: there is no name to open, or
\* the file cannot be created.  The body stays in memory.
FlushKeeps ==
  /\ \/ kind = "memory" /\ UNCHANGED filepath
     \/ kind = "file" /\ ~opened /\ filepath' = FreePath(filename)
  /\ UNCHANGED <<body, filename, opened, disk>>

\* The stream was told to throw: some of the body is written, then it does.  Or
\* exists() throws before there is a file.
FlushThrows ==
  /\ kind = "file"
  /\ opened \/ filename # NoName
  /\ \/ \E n \in 0..Len(body) : WriteToFile(SubSeq(body, 1, n))
     \/ ~opened /\ filepath' \in AskedPaths(filename) /\ UNCHANGED <<opened, disk>>
  /\ UNCHANGED <<body, filename>>
===============================================================================
