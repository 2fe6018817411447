---------------------------- MODULE AngrylionList ----------------------------
(***************************************************************************)
(* How the Angrylion renderer reads display lists (n64video_process_list and  *)
(* cmd_flush in n64video.c).  A list may end inside a command, which the next *)
(* list continues; complete commands are kept in slots until something makes  *)
(* the workers run them all, or, with the setting config.parallel off, run at *)
(* once.  The words of a command are read straight into the slot it will have. *)
(*                                                                         *)
(* One step is one turn of the list's loop.  Words are counted in pairs, the  *)
(* unit in which the RDP's registers address them; an image is an address and *)
(* an extent, the stretch of memory it is taken to cover.                    *)
(***************************************************************************)
EXTENDS Integers, Sequences, FiniteSetsExt

CONSTANTS Commands,      \* [id, len, image]: "draw", "color", "mask", "texture", "sync_full"
          Slots,         \* CMD_BUFFER_SIZE
          ListLen,       \* bound: word pairs in a list
          SyncIds        \* commands with rdp_cmd_sync set

ASSUME ListAssumption ==
    /\ Commands \subseteq [id : STRING, len : Nat \ {0}, image : Int \X Int]
    /\ Slots \in Nat \ {0}
    /\ ListLen \in Nat

VARIABLE list
   \* .left   words of the list not yet read      .slots  rdp_cmd_buf, contents of
   \* .read   words of the command read           .pos    rdp_cmd_buf_pos
   \* .cmd    the command, from its first word    .parallel  config.parallel
   \* .prev   prev_img_addr and prev_img_extent, {} while not valid
   \* .owed   ghost: commands decoded and not yet run, in the program's order

Kinds   == {"color", "mask"}
NoCmd   == [id |-> "none", len |-> 0, image |-> <<0, 0>>]
Empty   == [cmd |-> NoCmd, words |-> 0]

Held    == [cmd : Commands \cup {NoCmd}, words : Nat]

ListState ==
    [left : 0 .. ListLen, read : Nat, cmd : Commands \cup {NoCmd},
     slots : [0 .. Slots - 1 -> Held], pos : 0 .. Slots - 1,
     prev : [Kinds -> SUBSET (Int \X Int)], owed : Seq(Commands), parallel : BOOLEAN]

ListTypeOK ==
    /\ list \in ListState
    /\ list.cmd = NoCmd => list.read = 0
    /\ list.cmd # NoCmd => list.read \in 1 .. list.cmd.len - 1

ListInit ==
    list = [left  |-> 0,
            read  |-> 0,
            cmd   |-> NoCmd,
            slots |-> [s \in 0 .. Slots - 1 |-> Empty],
            pos   |-> 0,
            prev  |-> [k \in Kinds |-> {}],
            owed  |-> <<>>,
            parallel |-> TRUE]

\* Distinct images that overlap, with the larger extent for both.
Clash(a, b) ==
    /\ a # b
    /\ Max({a[1], b[1]}) - Min({a[1], b[1]}) < Max({a[2], b[2]})

\* The extent of a depth image is guessed from the color image's.
Image(c) ==
    IF c.id = "mask" /\ list.prev["color"] # {}
       THEN <<c.image[1], (CHOOSE i \in list.prev["color"] : TRUE)[2]>>
       ELSE c.image

Retargets(c) ==
    /\ c.id \in Kinds
    /\ \E k \in Kinds : \E old \in list.prev[k] : Clash(Image(c), old)

\* Fault: the command in hand stays in the slot it was read into.
FlushedInPlace(c, slots) == slots

\* A flush before the command is registered rewinds the position: the words of
\* the command are copied to the first slot.
Flushed(c, slots) == [slots EXCEPT ![0] = [cmd |-> c, words |-> c.len]]

\* The command is complete: what may run before it, and its own registration.
Register(c, slots) ==
    LET early == Retargets(c) \/ c.id = "sync_full"
        pos   == IF early THEN 0 ELSE list.pos
        flush == pos + 1 >= Slots \/ c.id \in SyncIds
        rest  == IF early THEN <<>> ELSE list.owed
    IN  [list EXCEPT
          !.slots = IF Retargets(c) THEN Flushed(c, slots) ELSE slots,
          !.prev  = IF c.id \in Kinds THEN [@ EXCEPT ![c.id] = {Image(c)}] ELSE @,
          !.pos   = IF c.id = "sync_full" \/ flush THEN 0 ELSE pos + 1,
          !.owed  = IF c.id = "sync_full" \/ flush THEN <<>> ELSE Append(rest, c),
          !.read  = 0,
          !.cmd   = NoCmd]

\* Without the workers nothing is registered, and what is registered stays.
RunAtOnce(slots) == [list EXCEPT !.slots = slots, !.read = 0, !.cmd = NoCmd]

\* A list is taken up; one that is refused changes nothing.
ListStart ==
    /\ list.left = 0
    /\ \E n \in 1 .. ListLen : list' = [list EXCEPT !.left = n]

\* The words still missing from the command.
Wanted(c) == c.len - list.read

\* A command is known from its first word, and a continued one already is.
InHand == IF list.read = 0 THEN Commands ELSE {list.cmd}

ListStep ==
    /\ list.left > 0
    /\ \E c \in InHand :
           LET n     == Min({list.left, Wanted(c)})
               read  == list.read + n
               slots == [list.slots EXCEPT ![list.pos] = [cmd |-> c, words |-> read]]
               after == IF read = c.len
                           THEN IF list.parallel THEN Register(c, slots) ELSE RunAtOnce(slots)
                           ELSE [list EXCEPT !.slots = slots, !.read = read, !.cmd = c]
           IN  list' = [after EXCEPT !.left = list.left - n]

\* n64video_close and n64video_init, for a setting changed between lists: what is
\* decoded of a command is dropped, what is buffered stays.
Reopen ==
    /\ list.left = 0
    /\ \E parallel \in BOOLEAN :
           list' = [list EXCEPT !.read = 0, !.cmd = NoCmd, !.prev = [k \in Kinds |-> {}],
                                !.parallel = parallel]

ListNext ==
    \/ ListStart
    \/ ListStep
    \/ Reopen

ListSpec == ListInit /\ [][ListNext]_list

-----------------------------------------------------------------------------
\* The commands the workers would run are those decoded and not yet run: each
\* whole, once and in the program's order, however lists cut them and whichever
\* flush came in between.
SlotsOwed ==
    /\ list.pos = Len(list.owed)
    /\ \A i \in 1 .. list.pos :
           list.slots[i - 1] = [cmd |-> list.owed[i], words |-> list.owed[i].len]
=============================================================================
