------------------------------ MODULE Terminal ------------------------------
(***************************************************************************)
(* The emulator of a session on the server, srv, and its copy in the       *)
(* client, cli: what the application writes goes through                   *)
(* HandleLargeStream (terminal/emulator.go, called from ActLarge in        *)
(* statesync/complete.go), which stops when the output would fill the ring *)
(* of rows and keeps the rest for later; what was handled is recorded in   *)
(* diffBuf, and sent to the client as it was written.  State               *)
(* synchronisation itself is in module SSP: here what is sent arrives.     *)
(*                                                                         *)
(* The server handles one handler at a time, so that the properties speak  *)
(* of every one; its main loop does nothing else until the loop has ended. *)
(*                                                                         *)
(* History variables: queue holds the handlers of what was written and not *)
(* handled, as one parser makes them that reads everything the application *)
(* writes; told is that parser.  apart holds the reasons for which the     *)
(* client is known not to follow the server, all of them in the code; what *)
(* the client has is of no interest then.                                  *)
(***************************************************************************)
EXTENDS Handlers

CONSTANTS NCols, NRows, SaveLines,   \* size of the terminal, and of its scrollback
          Prologues,                 \* sequences of sequences that both have handled
          Writes,                    \* Writes[i]: what may be written next, as sequences of pieces
          Sizes,                     \* sizes <<columns, rows>> the user may change to
          MaxResizes                 \* bound on those changes

ASSUME TerminalAssumption ==
  /\ NCols \in Nat /\ NRows \in Nat /\ SaveLines \in Nat /\ Sizes \subseteq Nat \X Nat
  /\ Prologues \subseteq Seq(ControlSequence)
  /\ Writes \in Seq(SUBSET Seq(PieceSet))

VARIABLES srv, cli,
          todo,         \* handlers of the stream that is being handled, as [seq, hd]
          at,           \* HandleLargeStream's pos and start
          remainsBuf, diffBuf,
          feeds,        \* empty strings on their way to the main loop
          resized,      \* the size was changed since the last frame
          written, resizes,
          queue, told, apart,
          jumbled,      \* the parser was not put back with the rest of a stream
          broken        \* a sequence was not understood

vars == <<srv, cli, todo, at, remainsBuf, diffBuf, feeds, resized, written, resizes, queue, told, apart, jumbled, broken>>

NoClient == [alt |-> FALSE]

Size(e)     == <<GetWidth(e), GetHeight(e)>>
RealSize(e) == <<e.nCols, e.nRows>>
OnScreen(e) == e.posX \in 0..e.nCols - 1 /\ e.posY \in 0..e.nRows - 1

\* Beyond this the code reads cells that are not those of the cursor.
Stopped == broken \/ ~OnScreen(srv)
Idle == todo = <<>> /\ ~Stopped

Init ==
  /\ \E prologue \in Prologues :
       srv = [HandleStream(NewEmulator3(NCols, NRows, SaveLines, {"kitty"}), [i \in DOMAIN prologue |-> Whole(prologue[i])])
                EXCEPT !.toHost = <<>>]
  /\ cli = [Clone(srv) EXCEPT !.caps = {}]
  /\ todo = <<>> /\ at = [pos |-> 0, start |-> FALSE]
  /\ remainsBuf = <<>> /\ diffBuf = <<>> /\ feeds = 0 /\ resized = FALSE
  /\ written = 0 /\ resizes = 0
  /\ queue = <<>> /\ told = srv.parser /\ apart = {} /\ jumbled = FALSE /\ broken = FALSE

-----------------------------------------------------------------------------
(* HandleLargeStream.                                                      *)

CursorRow(e) == GetPhysicalRow(Cf(e), e.posY)

\* After the loop; what the emulator answered has been read, too.
Finished(e) ==
  [e EXCEPT !.lastRows = IF e.alt THEN @ ELSE @ + GetRowsGap(Cf(e), at.pos, CursorRow(e)), !.toHost = <<>>]

\* ActLarge until the first handler.
ActLarge(pieces) ==
  LET read == ProcessStream(srv.parser, pieces)
  IN  \/ /\ pieces = <<>>
         /\ UNCHANGED <<srv, todo, at, remainsBuf, broken>>
      \/ /\ pieces # <<>>
         /\ ReachMaxRows(Cf(srv), srv.lastRows)
         /\ remainsBuf' = pieces
         /\ UNCHANGED <<srv, todo, at, broken>>
      \/ /\ pieces # <<>>
         /\ ~ReachMaxRows(Cf(srv), srv.lastRows)
         /\ srv' = [srv EXCEPT !.parser = read.parser]
         /\ todo' = read.hds
         /\ at' = [pos |-> CursorRow(srv), start |-> FALSE]
         /\ broken' = read.broken
         /\ remainsBuf' = <<>>

\* The application writes what follows from what it wrote before.
Write ==
  /\ Idle
  /\ written < Len(Writes)
  /\ written' = written + 1
  /\ \E chunk \in Writes[written + 1] :
       LET meant == ProcessStream(told, chunk)
       IN  /\ ~meant.broken
           /\ told' = meant.parser
           /\ queue' = queue \o meant.hds
           /\ ActLarge(remainsBuf \o chunk)
  /\ feeds' = feeds + IF remainsBuf' # <<>> THEN 1 ELSE 0
  /\ UNCHANGED <<cli, diffBuf, resized, resizes, apart, jumbled>>

Feed ==
  /\ Idle
  /\ feeds > 0
  /\ ActLarge(remainsBuf)
  /\ feeds' = IF remainsBuf' # <<>> THEN feeds ELSE feeds - 1
  /\ UNCHANGED <<cli, diffBuf, resized, written, resizes, queue, told, apart, jumbled>>

IsRewound ==
  ~srv.alt /\ at.start /\ IsFullFrame(Cf(srv), srv.lastRows, at.pos, CursorRow(srv))

\* The parser, having read it all, would make the same handlers of the rest.
ReadsAgain ==
  ProcessStream(srv.parser, RestoreSequence(todo)) = [parser |-> srv.parser, hds |-> todo, broken |-> FALSE]

\* Mutated: the handler at which the loop stops is skipped.
MRewind ==
  /\ todo # <<>> /\ ~Stopped /\ IsRewound
  /\ remainsBuf' = RestoreSequence(Tail(todo))
  /\ jumbled' = (jumbled \/ ~ReadsAgain)
  /\ srv' = Finished(srv)
  /\ todo' = <<>>
  /\ feeds' = feeds + 1
  /\ UNCHANGED <<cli, at, diffBuf, resized, written, resizes, queue, told, apart, broken>>

\* The ring is full: the rest is kept as it was written, but the parser has
\* read it, and will read it again.
Rewind ==
  /\ todo # <<>> /\ ~Stopped /\ IsRewound
  /\ remainsBuf' = RestoreSequence(todo)
  /\ jumbled' = (jumbled \/ ~ReadsAgain)
  /\ srv' = Finished(srv)
  /\ todo' = <<>>
  /\ feeds' = feeds + 1
  /\ UNCHANGED <<cli, at, diffBuf, resized, written, resizes, queue, told, apart, broken>>

HandleNext ==
  /\ todo # <<>> /\ ~Stopped /\ ~IsRewound
  /\ \E e \in {Handle(srv, Head(todo).hd)} :
     LET x        == Head(todo)
         replied  == e.toHost # srv.toHost
         excluded == ExcludeHandler(e, x.hd, replied)
         sized    == RealSize(e) # RealSize(srv)
     IN  /\ srv' = IF Len(todo) = 1 THEN Finished(e) ELSE e
         /\ diffBuf' = IF excluded THEN diffBuf ELSE Append(diffBuf, x)
         /\ at' = [at EXCEPT !.start = @ \/ (~e.alt /\ CursorRow(e) # at.pos)]
         /\ resized' = (resized \/ sized)
         /\ jumbled' = (jumbled \/ e.parser # srv.parser)
         /\ apart' = apart \cup (IF x.hd.k = "DECRQSS" /\ e.compatLevel # srv.compatLevel THEN {"excluded"} ELSE {})
                           \cup (IF sized /\ (resized \/ diffBuf # <<>>) THEN {"order"} ELSE {})
                           \cup (IF sized /\ RealSize(Handle(e, x.hd)) # RealSize(e) THEN {"again"} ELSE {})
  /\ todo' = Tail(todo)
  /\ queue' = IF queue = <<>> THEN <<>> ELSE Tail(queue)
  /\ UNCHANGED <<cli, remainsBuf, feeds, written, resizes, told, broken>>

-----------------------------------------------------------------------------
(* The user's sizes, and frames for the client.                            *)

\* input.go: Resize.Handle, from the main loop of the server.
ServeResize ==
  /\ Idle
  /\ resizes < MaxResizes
  /\ resizes' = resizes + 1
  /\ \E size \in Sizes :
       /\ size # RealSize(srv)
       /\ srv' = EmuResize(srv, size[1], size[2])
  /\ resized' = TRUE
  /\ apart' = apart \cup (IF resized \/ diffBuf # <<>> THEN {"order"} ELSE {})
  /\ UNCHANGED <<cli, todo, at, remainsBuf, diffBuf, feeds, written, queue, told, jumbled, broken>>

\* What both compare: Emulator.Equal leaves out these, and of the kitty stack
\* and the capabilities the client has none.
Compared(e) ==
  [e EXCEPT !.parser = NewParser, !.selectionStore = {}, !.toHost = <<>>, !.lastRows = 0, !.caps = {},
            !.frame_pri.kittyKbd = <<>>,
            !.frame_alt = IF e.alt THEN [@ EXCEPT !.kittyKbd = <<>>] ELSE NoFrame]

\* Emulator.Equal: the other screen, the links and two modes are left out, too.
Equal(e, x) ==
  LET seen(s) == [Compared(s) EXCEPT !.links = <<>>, !.modes = @ \ {"syncOutput", "altScreen1049"},
                    !.frame_pri = IF s.alt THEN NoFrame ELSE @,
                    !.savedDEC_pri = IF s.alt THEN NoCursor ELSE @, !.savedDEC_alt = IF s.alt THEN @ ELSE NoCursor]
  IN  seen(e) = seen(x)

SeqsOf(diff) == [i \in DOMAIN diff |-> Whole(diff[i].seq)]

\* complete.go: ApplyString on a clone.  The size comes before the output.
ApplyString(e, size, diff) ==
  LET sizedTo == IF size = Size(e) THEN Clone(e) ELSE EmuResize(Clone(e), size[1], size[2])
  IN  HandleStream(sizedTo, SeqsOf(diff))

\* Why a frame will not make the client's emulator that of the server.
Mismatch ==
  LET due   == Size(srv) # Size(cli)
      fresh == ProcessStream(NewParser, SeqsOf(diffBuf))
  IN  (IF (IF due THEN Size(srv) # RealSize(srv) ELSE RealSize(srv) # RealSize(cli)) THEN {"region"} ELSE {})
      \cup (IF fresh.broken \/ fresh.hds # diffBuf THEN {"parser"} ELSE {})

\* Mutated: the rows that were counted stay counted.
MReset ==
  /\ srv' = srv
  /\ diffBuf' = <<>>

\* Reset.
Reset ==
  /\ srv' = [srv EXCEPT !.lastRows = 0]
  /\ diffBuf' = <<>>

CanTick == Idle /\ (diffBuf # <<>> \/ resized)

\* diffFrom and ApplyString.
Send ==
  /\ CanTick
  /\ Reset
  /\ resized' = FALSE
  /\ apart' = apart \cup (IF apart = {} THEN Mismatch ELSE {})
  /\ cli' = IF apart' = {} THEN ApplyString(cli, Size(srv), diffBuf) ELSE NoClient
  /\ UNCHANGED <<todo, at, remainsBuf, feeds, written, resizes, queue, told, jumbled, broken>>

\* What is Equal to what the client has is not sent, and not kept either.  The
\* code compares the damaged areas as well, so it may send what is equal here.
Drop ==
  /\ CanTick
  /\ apart = {} /\ Equal(srv, cli)
  /\ \A i \in DOMAIN diffBuf : diffBuf[i].hd.k \notin {"U_set", "U_push", "U_pop"}
  /\ Reset
  /\ resized' = FALSE
  /\ apart' = IF Compared(srv) # Compared(cli) THEN {"dropped"} ELSE {}
  /\ UNCHANGED <<cli, todo, at, remainsBuf, feeds, written, resizes, queue, told, jumbled, broken>>

Next == Write \/ Feed \/ Rewind \/ HandleNext \/ ServeResize \/ Send \/ Drop

\* The main loop goes on, timers of the sender and the feeding goroutine run:
\* weak fairness, with the states in which a step changes something written out.
CanFeed   == Idle /\ feeds > 0 /\ (remainsBuf = <<>> \/ ~ReachMaxRows(Cf(srv), srv.lastRows))
CanHandle == todo # <<>> /\ ~Stopped
Fairness ==
  /\ []<>~CanFeed \/ []<><<Feed>>_vars
  /\ []<>~CanHandle \/ []<><<Rewind \/ HandleNext>>_vars
  /\ []<>~CanTick \/ []<><<Send>>_vars
Spec == Init /\ [][Next]_vars /\ Fairness

-----------------------------------------------------------------------------
(* Properties.                                                             *)

\* The cursor is on the screen, and no two rows of a frame buffer are kept in
\* one place, whatever an application writes and however the user resizes.  Three
\* ways to leave the screen are in the code: text beyond the right margin goes
\* on beyond the screen (hdl_graphemes), hdl_csi_cup in origin mode adds the top
\* margin to a row that is limited by the bottom one, and resize to fewer rows
\* moves the cursor up by all the rows that go, even if it was above some of them.
TypeOK ==
  /\ srv.posX \in 0..srv.nCols - 1 \/ On(srv, "lrMargin")
  /\ srv.posY < srv.nRows \/ (On(srv, "origin") /\ srv.marginTop > 0)
  /\ srv.posY >= 0 \/ resizes > 0
  /\ 0 <= srv.marginTop /\ srv.marginTop < srv.marginBottom /\ srv.marginBottom <= srv.nRows
  /\ 0 <= srv.hMargin /\ srv.hMargin < srv.nColsEff /\ srv.nColsEff <= srv.nCols
  /\ RealSize(srv) = <<Cf(srv).nCols, Cf(srv).nRows>>
  /\ RowsAreApart(Cf(srv)) /\ RowsAreApart(srv.frame_pri)
  /\ Cf(srv).scrollHead \in Cf(srv).marginTop..Cf(srv).marginBottom - 1
  /\ DOMAIN Cf(srv).cells = 0..srv.nCols * Rows(Cf(srv)) - 1
  /\ feeds \in 0..Len(Writes) /\ written \in 0..Len(Writes) /\ resizes \in 0..MaxResizes
  /\ apart \subseteq {"excluded", "order", "again", "region", "parser", "dropped"}

\* The client's emulator is the server's when all that was written has been
\* sent: replaying in the client what the handlers recorded (diffBuf), on a clone
\* that has lost its parser, and with the size sent ahead, gives the same screen,
\* scrollback, cursor, modes, saved cursors, titles, selection and links.
ClientAgrees ==
  (apart = {} /\ todo = <<>> /\ diffBuf = <<>> /\ ~resized) => Compared(srv) = Compared(cli)

\* What the application writes is handled in the order it was written, each
\* sequence once and as the application meant it, however reads cut it up and
\* however often the ring of rows is full and a rest is put aside (ActLarge,
\* HandleLargeStream).
HandledInOrder ==
  jumbled \/ LET rest == ProcessStream(srv.parser, remainsBuf)
             IN  ~broken /\ ~rest.broken /\ queue = todo \o rest.hds

\* All of it is handled in the end: a rest that was put aside is fed again, and
\* there is room when a frame has been sent (Reset).  In a screen of one row
\* without scrollback there never is.
AllOutputIsHandled == []<>(queue = <<>> \/ Stopped \/ jumbled \/ Cf(srv).marginBottom = 1)

-----------------------------------------------------------------------------
(* The scrollback.                                                         *)

Blank(fb, n) == [k \in 1..n |-> [x \in 1..fb.nCols |-> Space]]
Newest(rows, n) == IF Len(rows) <= n THEN rows ELSE SubSeq(rows, Len(rows) - n + 1, Len(rows))

\* Rows leave at the top of the screen for the scrollback, k of them.
Left(fb, fb2, k) == History(fb2) = Newest(History(fb) \o SubSeq(Screen(fb) \o Blank(fb, k), 1, k), fb.saveLines)

Feeders == {"IND", "NEL", "SU", "Graphemes", "REP"}
Takers  == {"SD", "RI"}
Renewers == {"RIS", "privSM", "privRM"}
IsDropped(hd) == hd.k \in Renewers \/ (hd.k = "ED" /\ hd.ps[1] = 3)

\* A handler, on the screen that has a scrollback.
KeptByHandler(fb, fb2, hd) ==
  CASE IsDropped(hd) \/ RealSize(srv) # RealSize(srv)' -> TRUE
    [] hd.k \in Feeders \cup Takers /\ fb.margin -> TRUE
    [] hd.k \in Feeders /\ ~fb.margin -> \E k \in 0..Rows(fb) : Left(fb, fb2, k)
    [] hd.k \in Takers /\ ~fb.margin /\ ~On(srv, "lrMargin") ->
         \E k \in 0..Rows(fb) :
            /\ Screen(fb2) = SubSeq(Blank(fb, k) \o Screen(fb), 1, fb.nRows)
            /\ History(fb2) = SubSeq(History(fb), 1, Greatest(0, Len(History(fb)) - k))
    [] OTHER -> History(fb2) = History(fb)

\* A change of the number of rows: all rows down to the cursor's are there, in
\* order, but for the oldest that the scrollback has no room for.
KeptByResize(fb, fb2) ==
  LET old == History(fb) \o SubSeq(Screen(fb), 1, srv.posY + 1)
      new == History(fb2) \o Screen(fb2)
  IN  fb.nCols = fb2.nCols /\ ~fb.margin =>
        \E cut \in 0..Len(old) :
          /\ IsPrefix(SubSeq(old, cut + 1, Len(old)), new)
          /\ cut > 0 => Len(History(fb2)) = fb2.saveLines

\* Scrolling never loses a row that there is room for, mixes rows up, or brings
\* one twice: what leaves the screen is the newest of the scrollback, what is
\* scrolled back is taken from it, setting margins and the alternate screen leave
\* it alone, and a resize moves rows between the two.  With margins the code
\* counts rows that it does not save (scrollUp), so scrolling there is left out.
ScrollbackIsKept ==
  [][ CASE todo # <<>> /\ todo' = Tail(todo) /\ diffBuf' # diffBuf ->
             IF srv.alt /\ srv'.alt THEN History(srv'.frame_pri) = History(srv.frame_pri)
             ELSE KeptByHandler(srv.frame_pri, srv'.frame_pri, Head(todo).hd)
        [] todo = <<>> /\ resizes' # resizes ->
             IF srv.alt THEN srv'.frame_pri = srv.frame_pri ELSE KeptByResize(srv.frame_pri, srv'.frame_pri)
        [] OTHER -> srv'.frame_pri = srv.frame_pri ]_vars
=============================================================================
