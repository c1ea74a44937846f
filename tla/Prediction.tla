----------------------------- MODULE Prediction -----------------------------
(***************************************************************************)
(* The client's main loop with its PredictionEngine (client.go), and the   *)
(* echo acks of the server that judge its predictions (server.go serve and *)
(* statesync/complete.go).                                                 *)
(*                                                                         *)
(* The states between the two are those of SSP: a frame of the client has  *)
(* a number and carries all keys typed since the last one, the server may  *)
(* get several at once, and the client gets the newest screen together     *)
(* with its echo ack.  What is under way one way or the other can be as    *)
(* late as the next step that takes it.  Time is left out: any of the      *)
(* oldest frames may have reached ECHO_TIMEOUT.                            *)
(***************************************************************************)
EXTENDS PredictionEngine

CONSTANTS
  Modes,            \* pairs of a display preference and predictOverwrite to look at
  Keys,             \* Keys[i]: what the user may do as i-th: type a key (see
                    \* NewUserInput), paste, or resize the window
  Size,             \* the size <<h, w>> of the window at the beginning
  Graphemes,        \* what a cell may hold
  Texts,            \* what the first row may hold at the beginning
  Intervals, Paces, \* classes of sendInterval and of the predictions' age
  MaxOutputs        \* bound: outputs of the host that echo nothing

\* What the user may do: glyphs are one or two columns wide.
GlyphKey  == [kind : {"glyph", "paste"}, ch : Graphemes, w : {1, 2}]
ResizeKey == [kind : {"resize"}, h : 1..MaxHeight, w : 1..MaxWidth]
OtherKey  == [kind : {"backspace", "CR", "CUF", "CUB", "control", "partial"}]

ASSUME PredictionAssumption ==
  /\ Modes \subseteq {"Always", "Adaptive", "Never", "Experimental"} \X BOOLEAN
  /\ Keys \in Seq(SUBSET UNION {GlyphKey, ResizeKey, OtherKey})
  /\ Size \in (1..MaxHeight) \X (1..MaxWidth)
  /\ Texts \cup {""} \subseteq Graphemes
  /\ Intervals \subseteq {"high", "middle", "low"} /\ Paces \subseteq {"quick", "slow", "late", "stuck"}
  /\ MaxOutputs \in Nat

MaxKeys == Len(Keys)

VARIABLES
  \* the client
  pe, localFramebuffer,
  remote,           \* the latest remote state: its screen and echoAck
  unsent,           \* keys of the current state that are in no frame yet
  lastSent,         \* GetSentStateLast
  \* the network
  inFlight,         \* frames sent and not yet received: their numbers and keys
  \* the server
  screen, echoAck, inputHistory, inputEcho, lastRemoteNum,
  hostInput,        \* keys written to the host that it has not reacted to
  \* history
  typed, outputs,   \* counted for the bounds
  printed,          \* the host has printed something
  unfounded         \* something was predicted without regard to what was there

clientVars == <<pe, localFramebuffer, remote, unsent, lastSent, typed, unfounded>>
serverVars == <<screen, echoAck, inputHistory, inputEcho, lastRemoteNum, hostInput>>
vars == <<clientVars, inFlight, serverVars, outputs, printed>>

Text(t)  == [Blank EXCEPT !.ch = t]
NewScreen(t) ==
  [h |-> Size[1], w |-> Size[2], row |-> 0, col |-> 0,
   cells |-> [pos \in Pos |-> IF pos[1] = 0 /\ pos[2] < Size[2] THEN Text(t) ELSE Blank]]

Init ==
  \E mode \in Modes, t \in Texts :
    /\ screen = NewScreen(t) /\ localFramebuffer = screen
    /\ remote = [screen |-> screen, echoAck |-> 0]
    /\ pe = Cull(NewPredictionEngine(mode[1], mode[2]), screen, "quick")
    /\ unsent = <<>> /\ lastSent = 0 /\ inFlight = <<>>
    /\ echoAck = 0 /\ inputHistory = <<>> /\ inputEcho = "Standby" /\ lastRemoteNum = 0
    /\ hostInput = <<>> /\ typed = 0 /\ outputs = 0 /\ printed = FALSE /\ unfounded = FALSE

\* A glyph of two cells, which keep their marks, or a row that is taken to be
\* blank: nothing is known of what its cells held before.
IsUnfounded(p, key) ==
  \/ key.kind = "glyph" /\ key.w = 2
  \/ \E pos \in Pos : p.cells[pos].active /\ p.cells[pos].orig = {}

-----------------------------------------------------------------------------
(* The client.  Each round of its loop takes one event, sends a frame if   *)
(* tick finds it is time to, and outputs a new frame.                      *)

Tick(keys) ==
  \/ /\ keys # <<>>
     /\ inFlight' = Append(inFlight, [num |-> lastSent + 1, keys |-> keys])
     /\ lastSent' = lastSent + 1 /\ unsent' = <<>>
  \/ UNCHANGED <<inFlight, lastSent>> /\ unsent' = keys

\* outputNewFrame: the predictions are checked against the latest remote state
\* and applied to a copy of it.  Applied predictions have been written out and
\* are not applied again until there is input, or output `fresh' from the
\* server.  Cells may also differ in what is left out here.
OutputNewFrame(p, rem, fresh) ==
  \E culled \in {Cull(p, rem.screen, pace) : pace \in Paces} :
    LET cells   == ShownCells(culled, rem.screen)
        written == \E pos \in cells : culled.cells[pos].repl.ch # ""
        changed == \E pos \in cells : culled.cells[pos].repl # rem.screen.cells[pos]
    IN  /\ localFramebuffer' = Apply(culled, rem.screen)
        /\ \E differ \in {cells # {}, changed} :
             pe' = [culled EXCEPT !.applied = IF ~(differ /\ written) /\ fresh THEN FALSE
                                              ELSE @ \/ differ]
        /\ remote' = rem

\* processNetworkInput: the newest state of the server has arrived.
ProcessNetworkInput ==
  \E interval \in Intervals :
    LET rem == [screen |-> screen, echoAck |-> echoAck]
    IN  /\ Tick(unsent)
        /\ OutputNewFrame([pe EXCEPT !.sendInterval = interval,
                                     !.localFrameLateAcked = echoAck],
                          rem, rem.screen # remote.screen)
        /\ UNCHANGED <<serverVars, typed, unfounded, outputs, printed>>

NextKeys == IF typed < MaxKeys THEN Keys[typed + 1] ELSE {}
Pasted   == {key \in NextKeys : key.kind = "paste"}
Resizes  == {key \in NextKeys : key.kind = "resize"}

\* processUserInput: the key is predicted and becomes part of the current
\* state, unless it belongs to the escape sequence of the client.
ProcessUserInput ==
  \E key \in NextKeys \ (Pasted \cup Resizes) : \E swallowed \in {FALSE, key.kind = "control"} :
    /\ typed' = typed + 1
    /\ Tick(IF swallowed THEN unsent ELSE Append(unsent, key))
    /\ \E predicted \in {NewUserInput([pe EXCEPT !.localFrameSent = lastSent],
                                       localFramebuffer, key, pace) : pace \in Paces} :
         /\ OutputNewFrame(predicted, remote, FALSE)
         /\ unfounded' = (unfounded \/ IsUnfounded(predicted, key))
    /\ UNCHANGED <<serverVars, outputs, printed>>

\* processUserInput of more than 100 bytes: bulk data, here one glyph, is not
\* predicted.
Paste ==
  /\ typed' = typed + 1
  /\ \E key \in Pasted : Tick(Append(unsent, [key EXCEPT !.kind = "glyph"]))
  /\ OutputNewFrame(Reset([pe EXCEPT !.localFrameSent = lastSent]), remote, FALSE)
  /\ UNCHANGED <<serverVars, unfounded, outputs, printed>>

\* processResize: the server will resize its terminal in turn.
ProcessResize ==
  /\ typed' = typed + 1
  /\ \E key \in Resizes : Tick(Append(unsent, key))
  /\ OutputNewFrame(Reset(pe), remote, FALSE)
  /\ UNCHANGED <<serverVars, unfounded, outputs, printed>>

\* The timer of the loop.
Timeout ==
  /\ Tick(unsent)
  /\ OutputNewFrame(pe, remote, FALSE)
  /\ UNCHANGED <<serverVars, typed, unfounded, outputs, printed>>

-----------------------------------------------------------------------------
(* The server's loop: one event, then SetEchoAck.                          *)

\* Mutated: what was acknowledged is forgotten, and so is all that came with it.
MSetEchoAck(history, echo, aged) ==
  /\ echoAck' = IF aged = 0 THEN echoAck ELSE history[aged]
  /\ inputHistory' = IF aged = 0 THEN history ELSE <<>>
  /\ inputEcho' = "Standby"

\* The newest frame old enough, or the newest of all if its echo is done.
SetEchoAck(history, echo, aged) ==
  LET n == IF echo = "EchoDone" THEN Len(history) ELSE aged
  IN  /\ echoAck' = IF n = 0 THEN echoAck ELSE history[n]
      /\ inputHistory' = Kept(history, {i \in DOMAIN history : history[i] >= echoAck'})
      /\ inputEcho' = IF echo = "EchoDone" THEN "Standby" ELSE echo

\* Mutated: one too many.
MFit(n, size) == IF n <= size THEN n ELSE size - 1

\* Resize.Handle, as far as the engine can tell: what fits stays.
Fit(n, size) == IF n < size THEN n ELSE size - 1
Resize(scr, h, w) ==
  [h |-> h, w |-> w, row |-> Fit(scr.row, h), col |-> Fit(scr.col, w),
   cells |-> [pos \in Pos |-> IF pos[1] < h /\ pos[2] < w THEN scr.cells[pos] ELSE Blank]]

\* A frame arrives, with the keys of those before it that have not.
ServeInput ==
  \E n \in 1..Len(inFlight) : \E aged \in 0..Len(inputHistory) :
    LET keys    == FlattenSeq([i \in 1..n |-> inFlight[i].keys])
        resizes == {i \in DOMAIN keys : keys[i].kind = "resize"}
        sizes   == Kept(keys, resizes)
        forHost == Kept(keys, DOMAIN keys \ resizes)
        num     == inFlight[n].num
    IN  /\ inFlight' = SubSeq(inFlight, n + 1, Len(inFlight))
        /\ lastRemoteNum' = num
        /\ screen' = IF sizes = <<>> THEN screen ELSE Resize(screen, Last(sizes).h, Last(sizes).w)
        /\ hostInput' = hostInput \o forHost
        /\ SetEchoAck(Append(inputHistory, num),
                      IF forHost # <<>> /\ inputEcho = "Standby" THEN "InputReady" ELSE inputEcho,
                      aged)
        /\ UNCHANGED <<clientVars, outputs, printed>>

\* Output of the host changes the screen.  The rest of a large one is always
\* taken for an echo, which is like all frames being old enough.
ServeOutput(after) ==
  \E aged \in 0..Len(inputHistory) :
    /\ screen' = after
    /\ SetEchoAck(inputHistory, IF inputEcho = "InputReady" THEN "EchoDone" ELSE inputEcho, aged)
    /\ UNCHANGED <<clientVars, inFlight, lastRemoteNum>>

ServeTimeout ==
  /\ \E aged \in 0..Len(inputHistory) : SetEchoAck(inputHistory, inputEcho, aged)
  /\ UNCHANGED <<clientVars, inFlight, screen, lastRemoteNum, hostInput, outputs, printed>>

-----------------------------------------------------------------------------
(* The host: a shell or whatever runs in it.                               *)

Newline(scr) == [scr EXCEPT !.row = Fit(@ + 1, scr.h), !.col = 0]

\* A glyph is printed at the cursor, in the next row if it does not fit.
Put(scr, key) ==
  LET at   == IF scr.col + key.w > scr.w THEN Newline(scr) ELSE scr
      here == <<at.row, at.col>>
      next == [at EXCEPT !.cells[here] = [ch |-> key.ch, wide |-> key.w = 2, cont |-> FALSE]]
      both == IF key.w = 2 THEN [next EXCEPT !.cells[<<at.row, at.col + 1>>] = [Blank EXCEPT !.cont = TRUE]]
              ELSE next
  IN  IF at.col + key.w < scr.w THEN [both EXCEPT !.col = @ + key.w] ELSE Newline(both)

Echoed(scr, key) ==
  CASE key.kind = "glyph" -> Put(scr, key)
    [] key.kind = "CR"    -> Newline(scr)
    [] key.kind = "CUF"   -> [scr EXCEPT !.col = Fit(@ + 1, scr.w)]
    [] key.kind = "CUB"   -> [scr EXCEPT !.col = IF @ = 0 THEN 0 ELSE @ - 1]
    [] OTHER              -> scr

\* It echoes a key, or says nothing.
HostEchoes ==
  /\ hostInput # <<>>
  /\ ServeOutput(Echoed(screen, Head(hostInput)))
  /\ printed' = (printed \/ Head(hostInput).kind = "glyph")
  /\ hostInput' = Tail(hostInput)
  /\ UNCHANGED outputs

HostIsSilent ==
  /\ hostInput # <<>> /\ hostInput' = Tail(hostInput)
  /\ UNCHANGED <<clientVars, inFlight, screen, echoAck, inputHistory, inputEcho,
                 lastRemoteNum, outputs, printed>>

\* It has something else to do.
HostOutputs ==
  /\ outputs < MaxOutputs /\ outputs' = outputs + 1
  /\ \/ ServeOutput(Newline(screen))
     \/ ServeOutput([screen EXCEPT !.cells = [pos \in Pos |-> Blank]])
  /\ UNCHANGED <<hostInput, printed>>

-----------------------------------------------------------------------------
ClientNext ==
  \/ ProcessNetworkInput \/ Timeout
  \/ ProcessUserInput \/ Paste \/ ProcessResize
HostNext == HostEchoes \/ HostIsSilent \/ HostOutputs
Next == ClientNext \/ ServeInput \/ ServeTimeout \/ HostNext

\* A frame is sent at last, and arrives (SSP); a frame reaches ECHO_TIMEOUT;
\* the client hears of it.
Sending == unsent # <<>> /\ unsent' = <<>>
AllAged == ServeTimeout /\ inputHistory # <<>> /\ echoAck' = Last(inputHistory)
News    == remote # [screen |-> screen, echoAck |-> echoAck]
Hearing == News /\ remote' = [screen |-> screen, echoAck |-> echoAck]
Spec == Init /\ [][Next]_vars
          /\ ([]<>(unsent = <<>>) \/ []<><<Sending>>_vars)
          /\ ([]<>~News \/ []<><<Hearing>>_vars)
          /\ WF_vars(ServeInput) /\ WF_vars(AllAged)

-----------------------------------------------------------------------------
Cell   == [ch : Graphemes, wide : BOOLEAN, cont : BOOLEAN]
Screen == [h : 1..MaxHeight, w : 1..MaxWidth, row : 0..MaxHeight - 1, col : 0..MaxWidth - 1,
           cells : [Pos -> Cell]]
Frames == 0..lastSent + 1

\* The types; a frame is acknowledged after it was sent.
TypeOK ==
  /\ {screen, localFramebuffer, remote.screen} \subseteq Screen
  /\ lastSent \in 0..MaxKeys /\ lastRemoteNum \in 0..lastSent
  /\ echoAck \in 0..lastRemoteNum /\ remote.echoAck \in 0..echoAck
  /\ \A i \in 1..Len(inputHistory) : inputHistory[i] \in 0..lastRemoteNum
  /\ inputEcho \in {"Standby", "InputReady"}
  /\ pe.glitchTrigger \in 0..2 * RepairCount /\ pe.srttTrigger \in BOOLEAN
  /\ pe.predictionEpoch \in Nat /\ pe.confirmedEpoch \in 0..pe.predictionEpoch
  /\ \A pos \in Pos : pe.cells[pos].frame \in Frames /\ pe.cells[pos].repl \in Cell

Predicted == {pos \in Pos : pe.cells[pos].active}

\* NewUserInput and the handlers it calls index the rows of the overlay and of
\* the local screen with the position of the predicted cursor: it is on that
\* screen, however the screen was resized, the cursor predicted across its
\* margins, and keys and frames have crossed.
PredictionsFit ==
  /\ pe.preference # "Never" =>
       pe.height = localFramebuffer.h /\ pe.width = localFramebuffer.w
  /\ \A i \in 1..Len(pe.cursors) : ~Outside(pe.cursors[i].row, pe.cursors[i].col, localFramebuffer)
  /\ \A pos \in Predicted : ~Outside(pos[1], pos[2], localFramebuffer)

\* Each round leaves only predictions the server has not answered yet.  Hence
\* where the user sees something else than the server's screen a keystroke is
\* still unanswered, and the cull in NewUserInput, which looks at a screen that
\* has the predictions on it, never takes one of them for its own confirmation.
OnlyUnansweredRemain ==
  /\ \A pos \in Predicted : pe.cells[pos].frame > remote.echoAck
  /\ \A i \in 1..Len(pe.cursors) : pe.cursors[i].frame > remote.echoAck
  /\ \A pos \in Pos : localFramebuffer.cells[pos] # remote.screen.cells[pos] =>
       pe.cells[pos].active /\ pe.cells[pos].frame > remote.echoAck

\* overlay.go:615: "An epoch begins tentatively, making predictions only in the
\* background."  While the host has echoed nothing, as when it asks for a
\* password, nothing the user types is shown, whatever was on the screen before.
\* Not so once a wide glyph was predicted: its two cells keep their marks, and a
\* newline in the last row then predicts them empty but not blank, which the
\* empty cells of the screen seem to confirm.  Nor after a newline in a last row
\* that is not blank: what its cells hold is not among the originalContents of
\* the next predictions there (overlay.go:687, :229), which it seems to confirm.
NothingIsShownBlindly ==
  ~printed /\ ~unfounded /\ pe.preference # "Experimental" => localFramebuffer = remote.screen

\* Once the user pauses, the predictions for all frames sent are judged and go,
\* whether the host has echoed the keys or not; none is left, but for a key that
\* was not sent, and then the user sees the server's screen.
Settles ==
  <>[](/\ \A pos \in Predicted : pe.cells[pos].frame > lastSent
       /\ \A i \in 1..Len(pe.cursors) : pe.cursors[i].frame > lastSent
       /\ Predicted = {} /\ pe.cursors = <<>> => localFramebuffer = screen)
=============================================================================
