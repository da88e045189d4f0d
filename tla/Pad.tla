--------------------------------- MODULE Pad ---------------------------------
(***************************************************************************)
(* What becomes of a pad on its way to the game.  First the packets of     *)
(* Syscon, and what MacroFire reads from and writes into them (mfmain.c,   *)
(* mf_syscon_handler_recieve and the conversions of buttons): a word of 32 *)
(* bits is the set of the positions of its ones; received data are bytes.  *)
(* Then what becomes of the stick and the buttons before the functions see *)
(* them: the stick is adjusted (mfanalogstick.c), and the pad remapped     *)
(* (remap.c, padutilRemap).  Buttons and remote keys are of one set there, *)
(* as their bits do not overlap (padutilSetHprm).                          *)
(***************************************************************************)
EXTENDS Integers, Sequences, FiniteSetsExt, SequencesExt

CONSTANTS
  NoPad,             \* no pad has come yet
  Center, MaxCoord,  \* PADUTIL_CENTER_X, PADUTIL_MAX_COORD
  Arriving,          \* the button words that arrive
  StickLevels,       \* what a stick may report in a packet
  Coords,            \* and in a pad
  PadButtons,        \* buttons and remote keys
  Tried              \* settings of the stick, with lists of remaps

VARIABLES
  hooked,    \* st_hooked
  packet,    \* the packet that the handler is given
  sent,      \* history: the packet as it arrived
  rawPad,    \* st_raw_pad, once this packet is handled
  decided,   \* history: the pad as the functions left it
  stickSet,  \* st_enable_movement and st_analogstick
  remaps,    \* remapList
  came,      \* the pad as it comes: the buttons, and the stick
  pad        \* and as the other functions get it

packetVars == <<hooked, packet, sent, rawPad, decided>>
stickVars  == <<stickSet, remaps, came, pad>>

-----------------------------------------------------------------------------
(* Packets. *)

Word     == 0 .. 31
Unknown  == 22 .. 31   \* SCE_SYSCON_CTRL_UNK_BUTTONS
Eject    == {15, 20, 21}
Byte     == 0 .. 255

Digital  == 7
Analog   == 8
NoPacket == [cmd |-> 0, response |-> 0, len |-> 3, data |-> [i \in 0 .. 8 |-> 0]]

Total(data, ids) == MapThenSumSet(LAMBDA i : data[i], ids)

\* mf_syscon_peek_dword and mf_syscon_poke_dword.
BitOf(n, i) == (n \div 2 ^ i) % 2 = 1
Peek(data)  == {i \in Word : BitOf(data[i \div 8], i % 8)}
PokeByte(word, k) == Total([i \in Word |-> 2 ^ (i % 8)], {i \in word : i \div 8 = k})
Poke(data, word)  == [i \in 0 .. 8 |-> IF i < 4 THEN PokeByte(word, i) ELSE data[i]]

\* mf_syscon_make_rx_checksum: the status is 0.
Checksum(p) == (255 - p.len - p.response - Total(p.data, 0 .. p.len - 4)) % 256

Invert(word) == Word \ word
Flip(word, bits) == (word \ bits) \cup (bits \ word)

\* Where the button at a bit of Syscon's word is in a pad's word, and back.
Moved(i) ==
  CASE i \in {8, 11} -> i - 8
    [] i \in {9, 10} -> i - 1
    [] i \in 4 .. 7  -> i + 8
    [] OTHER         -> i + 4
ToPsp(word) == {Moved(i) : i \in Flip(Invert(word), Eject) \ Unknown}
\* Variant: the eject switches stay as they are.
ToSysconUnflipped(buttons) == Invert({i \in Word \ Unknown : Moved(i) \in buttons})
ToSyscon(buttons) ==
  Invert({i \in Word \ Unknown : Moved(i) \in Flip(buttons, {Moved(e) : e \in Eject})})

PacketInit ==
  /\ hooked \in BOOLEAN
  /\ packet = NoPacket /\ sent = NoPacket /\ rawPad = NoPad /\ decided = NoPad

\* Syscon answers; the length of an answer goes with its kind.
Arrive(cmd, response, word, x, y) ==
  LET data == Poke([i \in 0 .. 8 |-> CASE i = 4 -> x [] i = 5 -> y [] OTHER -> 255], word)
  IN  /\ packet = NoPacket
      /\ packet' = [cmd |-> cmd, response |-> response, data |-> data,
                    len |-> IF cmd = Analog THEN 9 ELSE 7]
      /\ sent' = packet'
      /\ UNCHANGED <<hooked, rawPad, decided>>

\* What the functions make of a pad: they turn some buttons, and move the stick.
Functions(p, turned, moved) ==
  [buttons |-> Flip(p.buttons, turned),
   x |-> IF moved = Center THEN p.x ELSE moved, y |-> p.y]

IsPad(p) == p.cmd \in {Digital, Analog} /\ p.cmd = p.response
PadIn(p) ==
  [buttons |-> ToPsp(Peek(p.data)),
   x |-> IF p.response = Analog THEN p.data[4] ELSE Center,
   y |-> IF p.response = Analog THEN p.data[5] ELSE Center]

\* The packet with a pad in it: the checksum, last, is made of all that is before it.
WithPad(p, held) ==
  LET buttons == Poke(p.data, ToSyscon(held.buttons) \cup (Peek(p.data) \cap Unknown))
      stick   == IF p.response = Analog
                 THEN [buttons EXCEPT ![4] = held.x, ![5] = held.y] ELSE buttons
      written == [p EXCEPT !.data = stick]
  IN  [written EXCEPT !.data[IF p.response = Analog THEN 6 ELSE 4] = Checksum(written)]

\* mf_syscon_handler_recieve.  The game has the packet afterwards.
Receive(turned, moved) ==
  /\ packet # NoPacket /\ rawPad = NoPad
  /\ IF ~IsPad(packet)
     THEN packet' = NoPacket /\ sent' = NoPacket /\ UNCHANGED <<rawPad, decided>>
     ELSE /\ rawPad' = PadIn(packet)
          /\ decided' = IF hooked THEN Functions(rawPad', turned, moved) ELSE rawPad'
          /\ packet' = IF hooked THEN WithPad(packet, decided') ELSE packet
          /\ sent' = sent
  /\ UNCHANGED hooked

\* The game takes the packet, and the engine may be switched before the next one.
PacketTaken ==
  /\ rawPad # NoPad
  /\ packet' = NoPacket /\ sent' = NoPacket /\ rawPad' = NoPad /\ decided' = NoPad
  /\ hooked' \in BOOLEAN

PacketNext ==
  \/ \E word \in Arriving, x \in StickLevels, cmd \in {6, Digital, Analog} :
       \E response \in {cmd, Analog} : Arrive(cmd, response, word, x, 200)
  \/ \E turned \in {{}} \cup {{Moved(i)} : i \in Word \ Unknown}, moved \in StickLevels :
       Receive(turned, moved)
  \/ PacketTaken

PacketSpec == PacketInit /\ [][PacketNext]_packetVars

-----------------------------------------------------------------------------
(* The stick and the remaps. *)

Directions == {"AU", "AR", "AD", "AL"}
Distance(a, b) == IF a < b THEN b - a ELSE a - b
Pads  == [held : SUBSET PadButtons, x : Coords, y : Coords]

StickInit ==
  (\E t \in Tried : stickSet = t[1] /\ remaps = t[2]) /\ came = NoPad /\ pad = NoPad

Square(n) == n * n
InDeadzone(p) ==
  Square(p.x - stickSet.originX) + Square(p.y - stickSet.originY) <= Square(stickSet.deadzone)

\* A coordinate at a distance from the origin: the division is C's.
\* Variant: a result that is out of range is cut to a byte.
ScaledByte(origin, at) ==
  IF at >= origin
  THEN (origin + (Distance(at, origin) * stickSet.sensitivity) \div 100) % (MaxCoord + 1)
  ELSE (origin - (Distance(at, origin) * stickSet.sensitivity) \div 100) % (MaxCoord + 1)
Scaled(origin, at) ==
  LET moved == (Distance(at, origin) * stickSet.sensitivity) \div 100
      wide  == IF at >= origin THEN origin + moved ELSE origin - moved
  IN  CASE wide > MaxCoord -> MaxCoord [] wide < 0 -> 0 [] OTHER -> wide

\* What is between the origin and the centre is the centre.
Snapped(origin, at) ==
  IF \/ origin < at /\ at < Center
     \/ Center < at /\ at < origin
  THEN Center ELSE at

\* mfAnalogStickAdjust.
Adjusted(p) ==
  LET moved == IF InDeadzone(p) THEN [x |-> Center, y |-> Center]
               ELSE [x |-> Scaled(stickSet.originX, p.x), y |-> Scaled(stickSet.originY, p.y)]
  IN  IF stickSet.movement
      THEN [p EXCEPT !.x = Snapped(stickSet.originX, moved.x),
                     !.y = Snapped(stickSet.originY, moved.y)]
      ELSE [p EXCEPT !.x = Center, !.y = Center]

\* padutilGetAnalogStickDirection: 0.70682 is the sine of 45 degrees with 3.14 for pi.
Outweighs(a, b) == a > (b * 70682) \div 100000
DirectionOf(x, y) ==
  LET nx == Distance(x, Center)
      ny == Distance(y, Center)
  IN  { d \in Directions :
          CASE d = "AU" -> Outweighs(ny, nx) /\ y <= Center
            [] d = "AD" -> Outweighs(ny, nx) /\ y > Center
            [] d = "AL" -> Outweighs(nx, ny) /\ x <= Center
            [] d = "AR" -> Outweighs(nx, ny) /\ x > Center }

\* padutilSetAnalogStickDirection.
Turned(directions, p) ==
  [p EXCEPT
    !.x = IF "AL" \in directions THEN 0 ELSE IF "AR" \in directions THEN MaxCoord ELSE p.x,
    !.y = IF "AD" \in directions THEN MaxCoord ELSE IF "AU" \in directions THEN 0 ELSE p.y]

\* remapMain and padutilRemap: what was held decides, whatever earlier remaps made of it.
\* Variant: a remap sees what the earlier ones made of the pad.
RemappedInTurn(p, list) ==
  LET One(q, m) ==
        IF m.real \subseteq q.held \cup DirectionOf(q.x, q.y)
        THEN Turned(m.remap, [q EXCEPT !.held = (@ \ m.real) \cup m.remap]) ELSE q
  IN  FoldLeft(One, p, list)
Source(p) == p.held \cup DirectionOf(p.x, p.y)
Pushed(q, m, source) ==
  IF m.real \subseteq source
  THEN Turned(m.remap, IF m.real \cap Directions # {}
                       THEN [q EXCEPT !.x = Center, !.y = Center] ELSE q)
  ELSE q
Remapped(p, list) ==
  LET Push(q, m) == Pushed(q, m, Source(p))
      matched == {m \in ToSet(list) : m.real \subseteq Source(p)}
  IN  [FoldLeft(Push, p, list) EXCEPT
         !.held = (p.held \ UNION {m.real : m \in matched}) \cup UNION {m.remap : m \in matched}]

\* mf_call_functions, up to remapMain.
CallFunctions(p) ==
  /\ came = NoPad
  /\ came' = p
  /\ pad' = Remapped(Adjusted(p), remaps)
  /\ UNCHANGED <<stickSet, remaps>>

\* The menu of the stick and the one of the remaps.
SetUpPad ==
  /\ came = NoPad
  /\ \E t \in Tried : stickSet' = t[1] /\ remaps' = t[2]
  /\ UNCHANGED <<came, pad>>

\* The pad is used, and the next one may come.
PadUsed ==
  /\ came # NoPad
  /\ came' = NoPad /\ pad' = NoPad /\ UNCHANGED <<stickSet, remaps>>

StickNext == (\E p \in Pads : CallFunctions(p)) \/ SetUpPad \/ PadUsed

StickSpec == StickInit /\ [][StickNext]_stickVars

-----------------------------------------------------------------------------
PadTypeOK ==
  /\ hooked \in BOOLEAN
  /\ packet.data \in [0 .. 8 -> Byte] /\ sent.data \in [0 .. 8 -> Byte]
  /\ rawPad # NoPad => rawPad.buttons \subseteq Word /\ decided.buttons \subseteq Word
  /\ <<stickSet, remaps>> \in Tried
  /\ came \in Pads \cup {NoPad}
  /\ came # NoPad => /\ pad.held \subseteq PadButtons \cup Directions
                     /\ {pad.x, pad.y} \subseteq 0 .. MaxCoord

\* The game reads from a packet the buttons that the functions decided on, and from an analog
\* one the stick, too, with all that the packet's length covers adding up; without the hook it
\* has the packet as it came.  st_raw_pad is the pad as it came (mf_syscon_handler_recieve).
\* Nothing is said of the unknown buttons: ToSyscon leaves all their bits set.
PacketTold ==
  rawPad # NoPad =>
    /\ hooked => /\ PadIn(packet).buttons = decided.buttons
                 /\ packet.response = Analog => PadIn(packet) = decided
                 /\ (packet.len + packet.response + Total(packet.data, 0 .. packet.len - 3))
                      % 256 = 255
    /\ ~hooked => packet = sent
    /\ rawPad = PadIn(sent)

\* A stick that is pushed further to one side is never reported further to the other, unless it
\* is so close to its origin that the sensitivity leaves nothing of the way: the origin itself
\* is reported then, while the deadzone reports the centre (padutilAdjustAnalogStick).
PushedFurther ==
  came # NoPad =>
    \A x \in Coords :
      LET further == [came EXCEPT !.x = x]
      IN  x >= came.x =>
            \/ Adjusted(further).x >= Adjusted(came).x
            \/ stickSet.originX \in {Adjusted(further).x, Adjusted(came).x}

\* The remaps, at places s of a list, that push the stick to one of the ends, or start from
\* it, which puts it into the centre.
PushesTo(m, source, ends) ==
  m.real \subseteq source /\ (m.real \cap Directions # {} \/ m.remap \cap ends # {})
Pushers(list, source, s, ends) == {j \in s : PushesTo(list[j], source, ends)}
\* Where a remap of these pushes the stick: the last one has its way.
XOf(m) == IF "AL" \in m.remap THEN 0 ELSE IF "AR" \in m.remap THEN MaxCoord ELSE Center
YOf(m) == IF "AD" \in m.remap THEN MaxCoord ELSE IF "AU" \in m.remap THEN 0 ELSE Center
XAfter(p, list, source, s) ==
  LET J == Pushers(list, source, s, {"AL", "AR"}) IN IF J = {} THEN p.x ELSE XOf(list[Max(J)])
YAfter(p, list, source, s) ==
  LET J == Pushers(list, source, s, {"AU", "AD"}) IN IF J = {} THEN p.y ELSE YOf(list[Max(J)])

\* Each remap goes by what was held and where the stick was, whatever others make of them, in
\* any list: what is held then does not depend on their order, and along each axis the last one
\* that pushes the stick has its way (padutilRemap).
LastHasItsWay ==
  LET p == Adjusted(came)
  IN  came # NoPad =>
        /\ Remapped(p, Reverse(remaps)).held = pad.held
        /\ pad.x = XAfter(p, remaps, Source(p), 1 .. Len(remaps))
        /\ pad.y = YAfter(p, remaps, Source(p), 1 .. Len(remaps))

\* So remaps may come in any order, as long as none starts from the stick and no two push it to
\* opposite sides; and a direction that is remapped to is one that the game sees (padutilRemap).
OrderIsFree ==
  LET goals    == UNION {m.remap : m \in ToSet(remaps)}
      opposite == {"AU", "AD"} \subseteq goals \/ {"AL", "AR"} \subseteq goals
  IN  came # NoPad /\ (\A m \in ToSet(remaps) : m.real \cap Directions = {}) /\ ~opposite =>
        /\ Remapped(Adjusted(came), Reverse(remaps)) = pad
        /\ pad.held \cap Directions \subseteq DirectionOf(pad.x, pad.y)

\* The game gets the pad as it was decided, and it is decided as it was set.
PadAsDecided == PacketTold /\ PushedFurther /\ LastHasItsWay /\ OrderIsFree
=============================================================================
