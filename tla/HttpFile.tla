------------------------------ MODULE HttpFile ------------------------------
(***************************************************************************)
(* The static file handler: HttpFileHandler::do_GET and HttpConnection     *)
(* (src/http/socks_http_handler.cpp) as HttpGetState::onEnter calls them,  *)
(* between a client, which may stop reading or reset, and a file system    *)
(* that others change while the file is served.                            *)
(*                                                                         *)
(* A file is its number of units and a version; the unit at a position of  *)
(* a version is the tuple of the three.  Names lead to files, so that a    *)
(* name can be taken by another file while the first is still open.  What  *)
(* has no end (a device, or a file that grows as fast as it is sent) is    *)
(* one entry, Endless, of which the units are not told apart, and a pipe   *)
(* that nobody writes to another.                                          *)
(***************************************************************************)
EXTENDS Integers, Sequences

CONSTANTS
  Files,       \* the file system's files
  MaxUnits,    \* bound on the units of a file
  MaxChanges,  \* bound on the changes of the file system during a request
  BUF_SIZE,    \* units of do_GET's buffer
  FILEBUF_SIZE \* units std::filebuf reads ahead

Names == {"index.html", "page.html", "/page.html"}
Missing == "missing"
Directory == "directory"
Endless == "endless"
Pipe == "pipe"
Special == {Missing, Directory, Endless, Pipe}

ASSUME HttpFileAssumption ==
  /\ Special \cap Files = {}
  /\ {MaxUnits, MaxChanges} \subseteq Nat
  /\ BUF_SIZE \in Nat \ {0} /\ FILEBUF_SIZE \in Nat \ {0}

Entries == Files \cup Special

VARIABLES
  disk,     \* what a name leads to
  size,     \* units of a file
  version,  \* version of a file's units
  changes,  \* history: changes of the file system
  touched,  \* history: "name" if it changed between the two opens, "units" if
            \* the file's units changed since the first
  path,     \* requestInfo.path()
  pc,       \* what do_GET does next
  opened,   \* what the stream `in' reads from
  offset,   \* units taken from the opened file
  ahead,    \* units in the stream's buffer
  fail,     \* the stream's failbit or badbit
  buf,      \* units of buf that in.read() filled; gcount()
  length,   \* what get_file_size returned
  wire,     \* what the client was sent
  peer      \* "reads", "stalled" if it never reads again, "reset"

fsVars == <<disk, size, version, changes, touched>>
streamVars == <<opened, offset, ahead, fail, buf>>
vars == <<fsVars, path, pc, streamVars, length, wire, peer>>

Unit(f, p) == <<f, version[f], p>>
Huge == MaxUnits + 1000

\* The file name a path stands for: one leading '/' is dropped.
Name ==
  CASE path \in {"", "/"} -> "index.html"
    [] path = "//page.html" -> "/page.html"
    [] OTHER -> "page.html"

Init ==
  /\ path \in {"", "/", "/page.html", "page.html", "//page.html", "/../page.html"}
  /\ \E entry \in Entries : disk = [name \in Names |-> IF name = Name THEN entry ELSE Missing]
  /\ size \in [Files -> 0 .. MaxUnits]
  /\ version = [f \in Files |-> 0]
  /\ changes = 0
  /\ touched = {}
  /\ pc = "resolve"
  /\ opened = Missing
  /\ offset = 0
  /\ ahead = <<>>
  /\ fail = FALSE
  /\ buf = <<>>
  /\ length = 0
  /\ wire = <<>>
  /\ peer = "reads"

-----------------------------------------------------------------------------
(* HttpConnection.                                                         *)

\* Connection::send.  It waits for a client that does not read; it throws to
\* HttpInitState::onReceive, which closes the connection, if there was a reset.
Send(item, next) ==
  \/ peer = "reads" /\ wire' = Append(wire, item) /\ pc' = next
  \/ peer = "reset" /\ pc' = "close" /\ UNCHANGED wire

http_response_code(code, next) ==
  Send(code, next) /\ UNCHANGED <<fsVars, path, streamVars, length, peer>>

\* http_403() and http_404() send no empty line after the header.
Status(at, code, next) == pc = at /\ http_response_code(code, next)

ContentLength ==
  /\ pc = "length"
  /\ Send(<<"Content-Length", length>>, "end_headers")
  /\ UNCHANGED <<fsVars, path, streamVars, length, peer>>

end_headers ==
  /\ pc = "end_headers"
  /\ Send("empty line", "read")
  /\ UNCHANGED <<fsVars, path, streamVars, length, peer>>

-----------------------------------------------------------------------------
(* HttpFileHandler::do_GET.                                                *)

Resolve ==
  /\ pc = "resolve"
  /\ pc' = IF path = "/../page.html" THEN "403" ELSE "open"
  /\ UNCHANGED <<fsVars, path, streamVars, length, wire, peer>>

\* A directory can be opened, but not read.  The open of a pipe waits for a
\* writer.
Open ==
  /\ pc = "open"
  /\ opened' = disk[Name]
  /\ pc' = CASE disk[Name] = Missing -> "404"
             [] disk[Name] = Pipe -> "stuck"
             [] OTHER -> "size"
  /\ UNCHANGED <<fsVars, path, offset, ahead, fail, buf, length, wire, peer>>

\* Mutant: the second stream is not opened at its end.
GetFileSizeAtStart ==
  /\ pc = "size"
  /\ length' = 0
  /\ pc' = "200"
  /\ UNCHANGED <<fsVars, path, streamVars, wire, peer>>

\* get_file_size opens the name again; tellg() is -1 if that fails.  Where the
\* end of a directory is depends on the file system; a device says anything.
GetFileSize ==
  /\ pc = "size"
  /\ CASE disk[Name] \in Files -> length' = size[disk[Name]]
       [] disk[Name] = Missing -> length' = -1
       [] disk[Name] = Directory -> length' \in {-1, Huge}
       [] disk[Name] = Endless -> length' \in -1 .. MaxUnits
       [] disk[Name] = Pipe -> UNCHANGED length
  /\ pc' = IF disk[Name] = Pipe THEN "stuck" ELSE "200"
  /\ UNCHANGED <<fsVars, path, streamVars, wire, peer>>

\* The stream's buffer is filled again; at the end of the file, or if it
\* cannot be read, in.read() ends with what it has.
Underflow ==
  /\ pc = "read"
  /\ opened # Endless
  /\ ~fail
  /\ Len(buf) < BUF_SIZE
  /\ ahead = <<>>
  /\ LET last == IF opened \notin Files THEN 0
                 ELSE IF size[opened] < offset + FILEBUF_SIZE THEN size[opened]
                 ELSE offset + FILEBUF_SIZE
     IN  IF last > offset
         THEN /\ ahead' = [i \in 1 .. last - offset |-> Unit(opened, offset + i)]
              /\ offset' = last
              /\ UNCHANGED <<pc, fail>>
         ELSE fail' = TRUE /\ pc' = "write" /\ UNCHANGED <<ahead, offset>>
  /\ UNCHANGED <<fsVars, path, opened, buf, length, wire, peer>>

\* Mutant: what is buffered is taken whole.
TakeBufferedOverrun ==
  /\ pc = "read"
  /\ ahead # <<>>
  /\ buf' = buf \o ahead
  /\ ahead' = <<>>
  /\ pc' = IF Len(buf') < BUF_SIZE THEN "read" ELSE "write"
  /\ UNCHANGED <<fsVars, path, opened, offset, fail, length, wire, peer>>

TakeBuffered ==
  /\ pc = "read"
  /\ ahead # <<>>
  /\ LET room == BUF_SIZE - Len(buf)
         n == IF Len(ahead) < room THEN Len(ahead) ELSE room
     IN  /\ buf' = buf \o SubSeq(ahead, 1, n)
         /\ ahead' = SubSeq(ahead, n + 1, Len(ahead))
         /\ pc' = IF n = room THEN "write" ELSE "read"
  /\ UNCHANGED <<fsVars, path, opened, offset, fail, length, wire, peer>>

\* A stream that has failed reads nothing: gcount() is 0.
ReadAfterFail ==
  /\ pc = "read"
  /\ fail
  /\ pc' = "write"
  /\ UNCHANGED <<fsVars, path, streamVars, length, wire, peer>>

\* in.read() fills the buffer from what has no end.
ReadEndless ==
  /\ pc = "read"
  /\ opened = Endless
  /\ pc' = "write"
  /\ UNCHANGED <<fsVars, path, streamVars, length, wire, peer>>

\* Mutant: the whole buffer is written, whatever gcount() says.
WriteWholeBuffer ==
  /\ pc = "write"
  /\ opened # Endless
  /\ IF buf = <<>> THEN pc' = "close" /\ UNCHANGED wire
     ELSE Send(buf \o [i \in 1 .. BUF_SIZE - Len(buf) |-> <<Missing, 0, 0>>], "read")
  /\ buf' = <<>>
  /\ UNCHANGED <<fsVars, path, opened, offset, ahead, fail, length, peer>>

\* Mutant: the loop ends at eof(), which a directory never reaches.
WriteUntilEof ==
  /\ pc = "write"
  /\ opened # Endless
  /\ IF buf = <<>>
     THEN pc' = (IF opened = Directory THEN "read" ELSE "close") /\ UNCHANGED wire
     ELSE Send(buf, "read")
  /\ buf' = <<>>
  /\ UNCHANGED <<fsVars, path, opened, offset, ahead, fail, length, peer>>

\* Writing no bytes sends nothing and ends the loop.
Write ==
  /\ pc = "write"
  /\ opened # Endless
  /\ IF buf = <<>> THEN pc' = "close" /\ UNCHANGED wire ELSE Send(buf, "read")
  /\ buf' = <<>>
  /\ UNCHANGED <<fsVars, path, opened, offset, ahead, fail, length, peer>>

\* A chunk of what has no end is sent; it is not kept in the wire.
WriteEndless ==
  /\ pc = "write"
  /\ opened = Endless
  /\ \/ peer = "reads" /\ pc' = "read"
     \/ peer = "reset" /\ pc' = "close"
  /\ UNCHANGED <<fsVars, path, streamVars, length, wire, peer>>

\* HttpGetState::onEnter, or HttpInitState::onReceive after an exception.
Close ==
  /\ pc = "close"
  /\ pc' = "closed"
  /\ UNCHANGED <<fsVars, path, streamVars, length, wire, peer>>

Worker ==
  \/ Resolve \/ Open \/ GetFileSize
  \/ Status("403", "403 Forbidden", "close")
  \/ Status("404", "404 Not Found", "close")
  \/ Status("200", "200 OK", "length")
  \/ ContentLength \/ end_headers
  \/ Underflow \/ TakeBuffered \/ ReadAfterFail \/ ReadEndless
  \/ Write \/ WriteEndless \/ Close

-----------------------------------------------------------------------------
(* The file system and the client.                                         *)

\* A name is removed, or leads to something else.  What happens to other names
\* cannot be seen.
ChangeName(name, entry) ==
  /\ changes < MaxChanges
  /\ disk[name] # entry
  /\ disk' = [disk EXCEPT ![name] = entry]
  /\ changes' = changes + 1
  /\ touched' = touched \cup IF pc = "size" /\ name = Name THEN {"name"} ELSE {}
  /\ UNCHANGED <<size, version, path, pc, streamVars, length, wire, peer>>

\* A file is written in place.
ChangeUnits(f, n) ==
  /\ changes < MaxChanges
  /\ size' = [size EXCEPT ![f] = n]
  /\ version' = [version EXCEPT ![f] = @ + 1]
  /\ changes' = changes + 1
  /\ touched' = touched \cup IF opened = f THEN {"units"} ELSE {}
  /\ UNCHANGED <<disk, path, pc, streamVars, length, wire, peer>>

FileSystem ==
  \/ \E entry \in Entries : ChangeName(Name, entry)
  \/ \E f \in Files, n \in 0 .. MaxUnits : ChangeUnits(f, n)

Client ==
  /\ pc # "closed"
  /\ \/ peer = "reads" /\ peer' \in {"stalled", "reset"}
     \/ peer = "stalled" /\ peer' = "reset"
  /\ UNCHANGED <<fsVars, path, pc, streamVars, length, wire>>

Next == (pc # "closed" /\ (Worker \/ FileSystem)) \/ Client

Spec == Init /\ [][Next]_vars

FairSpec == Spec /\ WF_vars(Worker)

-----------------------------------------------------------------------------
(* Properties.                                                             *)

\* What was sent after the empty line: the chunks, joined.
Joined(items) ==
  LET joined[k \in 0 .. Len(items)] ==
        IF k <= 3 THEN <<>> ELSE joined[k - 1] \o items[k]
  IN  joined[Len(items)]

Body == Joined(wire)

Served == wire # <<>> /\ wire[1] = "200 OK"

\* Every variable has its type, and no chunk is larger than do_GET's buffer.
TypeOK ==
  /\ disk \in [Names -> Entries]
  /\ size \in [Files -> 0 .. MaxUnits]
  /\ version \in [Files -> 0 .. MaxChanges]
  /\ changes \in 0 .. MaxChanges
  /\ touched \subseteq {"name", "units"}
  /\ pc \in {"resolve", "open", "403", "404", "size", "200", "length", "end_headers", "read",
            "write", "close", "closed", "stuck"}
  /\ opened \in Entries
  /\ offset \in 0 .. MaxUnits
  /\ Len(ahead) <= FILEBUF_SIZE
  /\ fail \in BOOLEAN
  /\ Len(buf) <= BUF_SIZE
  /\ length \in -1 .. MaxUnits \cup {Huge}
  /\ peer \in {"reads", "stalled", "reset"}
  /\ \A k \in 4 .. Len(wire) : Len(wire[k]) \in 1 .. BUF_SIZE

\* do_GET measures the file with a second open and reads it with the first.
\* The body is never longer than Content-Length, and the response never ends
\* short of it, unless the name was given to another file between the two
\* opens, or the file was written meanwhile, or the client is gone.
LengthMatchesBody ==
  Served /\ opened \in Files /\ touched = {} =>
    /\ pc # "200" => Len(Body) <= length
    /\ pc = "closed" /\ peer # "reset" => Len(Body) = length

\* Whatever happens to the name, and however reads and chunks fall, the body is
\* the opened file from its first unit on, without gap or repetition; a file
\* that is written meanwhile is at worst cut where it changed, never taken
\* back to an older version, and one that is not is sent as it was.
BodyIsOpenedFile ==
  Served =>
    \A i \in 1 .. Len(Body) :
      /\ Body[i][1] = opened /\ Body[i][3] = i
      /\ i > 1 => Body[i][2] >= Body[i - 1][2]
      /\ "units" \notin touched => Body[i] = Unit(opened, i)

\* Every request ends with the connection closed, also for what cannot be read
\* and for a file that changes, with three exceptions: the client no longer
\* reads and send() blocks the worker, the client goes on reading what has no
\* end, for which do_GET's loop has no bound, or the name leads to a pipe.
ResponseEnds ==
  \/ <>(pc = "closed")
  \/ <>[](peer = "stalled")
  \/ <>[](peer = "reads" /\ opened = Endless)
  \/ <>[](pc = "stuck")
=============================================================================
