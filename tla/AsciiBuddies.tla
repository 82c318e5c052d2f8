---------------------------- MODULE AsciiBuddies ---------------------------
(***************************************************************************)
(* The built-in characters (src/app/src/ascii): eighteen species, each with  *)
(* an animation for each of the seven states of the pet, and the renderer    *)
(* that puts the pose of the moment into a frame of 24 by 10 characters.     *)
(*                                                                            *)
(* An animation is kept as its tables: the order of the poses, the shifts of  *)
(* each beat, and the width of its widest line.  The drawings themselves and  *)
(* the letters that float around them (z, !, hearts, stars) are left out: they *)
(* are clipped at the edges of the frame and nothing depends on them.          *)
(***************************************************************************)
EXTENDS Integers, Sequences, FiniteSets

\* Pixels of the canvas the characters were drawn for, and cells of the frame.
BUDDY_X_CENTER == 67
BUDDY_Y_BASE == 30
BUDDY_CHAR_W == 6
BUDDY_CHAR_H == 8
BUDDY_ASCII_COLS == 24
BUDDY_ASCII_ROWS == 10

kTickMs == 200
GifSentinel == 255
SpriteLines == 5

States == {"SLEEP", "IDLE", "BUSY", "ATTENTION", "CELEBRATE", "DIZZY", "HEART"}

-----------------------------------------------------------------------------
(* The animations.                                                          *)

\* An animation changes its pose every `beatTicks` ticks.  The numbers in seq are
\* entries of its array of poses (P), which has `poses` of them; `widest` is the
\* longest line of any of them.  Two entries may be one drawing: in the sleep of Cat
\* and of Chonk, and in the attention of Blob, one stands twice, and the two that
\* sleep each have another (DREAM, DROOL) which is declared and never drawn.
Anim(beatTicks, poses, widest, seq) ==
  [beatTicks |-> beatTicks, poses |-> poses, widest |-> widest, seq |-> seq,
   dy |-> <<>>, dx |-> <<>>, shake |-> <<>>, twitch |-> {}]

\* Shifts by beat (Y_SHIFT, Y_BOB, X_SHIFT), and poses that move from tick to tick:
\* shake by as much as given to either side, twitch by one down.
Bobbing(anim, shifts) == [anim EXCEPT !.dy = shifts]
Swaying(anim, shifts) == [anim EXCEPT !.dx = shifts]
Shaking(anim, amounts) == [anim EXCEPT !.shake = amounts]
Only(pose, amount) == [p \in {pose} |-> amount]
Twitching(anim, poses) == [anim EXCEPT !.twitch = poses]

CapybaraIdle == <<0,0,0,1,0,2,0,4,0,5,0,0,6,7,6,7,0,0,3,3,0,4,8,8,0,0,9,9,0,0>>
Capybara == [
  SLEEP |-> Anim(5, 6, 10, <<0,1,0,1,0,1,2,1,0,1,0,1,3,4,3,4,3,4,3,3,1,5,1,1>>),
  IDLE |-> Anim(5, 10, 12, CapybaraIdle),
  BUSY |-> Anim(5, 6, 10, <<0,1,0,1,0,1,2,2,0,1,0,1,3,3,2,4,0,1,0,1,5>>),
  ATTENTION |-> Shaking(Anim(5, 6, 12, <<0,4,0,1,0,2,0,3,4,4,0,1,2,0,5,0>>), Only(4, 1)),
  CELEBRATE |-> Bobbing(Anim(3, 6, 12, <<0,1,2,1,0,3,4,3,4,0,1,2,1,0,5,5>>),
      <<0,-3,-6,-3,0,0,0,0,0,0,-3,-6,-3,0,0,0>>),
  DIZZY |-> Swaying(Anim(4, 5, 10, <<0,1,0,1,2,3,0,1,0,1,4,4,2,3>>),
      <<-3,3,-3,3,0,0,-3,3,-3,3,0,0,0,0>>),
  HEART |-> Bobbing(Anim(5, 5, 10, <<0,0,1,0,2,2,0,1,0,4,0,0,3,3,0,1,0,2,1,0>>),
      <<0,-1,0,-1,0,-1,0,-1,0,0,-1,0,0,0,-1,0,-1,0,-1,0>>)]

DuckIdle == <<0,0,0,1,0,2,0,4,0,5,0,0,6,7,6,7,0,0,3,3,0,4,8,0,8,0,9,9,0,0>>
Duck == [
  SLEEP |-> Anim(5, 6, 10, <<0,0,1,0,1,2,1,0,1,0,1,3,3,4,4,3,4,0,0,1,5,1,1>>),
  IDLE |-> Anim(5, 10, 9, DuckIdle),
  BUSY |-> Anim(5, 6, 8, <<0,1,0,1,0,1,5,5,0,1,0,1,2,3,3,2,4,4,0,1,0,1,5>>),
  ATTENTION |-> Shaking(Anim(5, 6, 10, <<0,5,0,1,0,2,0,3,4,4,0,1,2,0,5,0>>), Only(4, 1)),
  CELEBRATE |-> Bobbing(Anim(3, 6, 10, <<0,1,2,1,0,3,4,3,4,0,1,2,1,0,5,5>>),
      <<0,-3,-6,-3,0,0,0,0,0,0,-3,-6,-3,0,0,0>>),
  DIZZY |-> Swaying(Anim(4, 5, 10, <<0,1,0,1,2,3,0,1,0,1,4,4,2,3>>),
      <<-3,3,-3,3,0,0,-3,3,-3,3,0,0,0,0>>),
  HEART |-> Bobbing(Anim(5, 5, 8, <<0,0,1,0,2,2,0,1,0,4,0,0,3,3,0,1,0,2,1,0>>),
      <<0,-1,0,-1,0,-1,0,-1,0,0,-1,0,0,0,-1,0,-1,0,-1,0>>)]

GooseIdle == <<0,0,4,0,1,0,2,0,7,8,7,8,0,0,3,0,4,5,5,0,6,6,0,0,9,9,0,4,0>>
Goose == [
  SLEEP |-> Anim(5, 6, 8, <<0,1,0,1,0,1,2,1,0,1,0,3,4,4,4,1,0,1,2,2,0,1,5,1>>),
  IDLE |-> Anim(5, 10, 8, GooseIdle),
  BUSY |-> Anim(5, 6, 8, <<0,1,0,1,0,1,3,3,0,1,0,1,2,2,4,4,0,1,5,5,0>>),
  ATTENTION |-> Shaking(Anim(5, 6, 11, <<0,3,0,1,0,2,0,3,4,4,0,1,2,0,5,0>>),
      [p \in {3, 4} |-> p - 2]),
  CELEBRATE |-> Bobbing(Anim(3, 6, 11, <<0,1,2,1,0,3,4,3,4,0,1,2,1,0,5,5>>),
      <<0,-3,-7,-3,0,0,0,0,0,0,-3,-7,-3,0,0,0>>),
  DIZZY |-> Swaying(Anim(4, 5, 8, <<0,1,0,1,2,3,0,1,0,1,4,4,2,3>>),
      <<-3,3,-3,3,0,0,-3,3,-3,3,0,0,0,0>>),
  HEART |-> Bobbing(Anim(5, 5, 8, <<0,0,1,0,2,2,0,1,0,4,0,0,3,3,0,1,0,2,1,0>>),
      <<0,-1,0,-1,0,-1,0,-1,0,0,-1,0,0,0,-1,0,-1,0,-1,0>>)]

BlobIdle ==
  <<1,2,1,0,1,2,1,3,1,4,1,5,2,2,8,8,2,6,7,6,7,1,1,2,9,9,1,1,3,4,3,4,1,5,1,0,0,2,2>>
Blob == [
  SLEEP |-> Anim(5, 6, 11, <<0,1,2,1,0,1,2,1,0,4,4,0,1,2,5,2,1,3,3,0,0,1,2,1,0>>),
  IDLE |-> Anim(5, 10, 10, BlobIdle),
  BUSY |-> Anim(5, 6, 10, <<0,1,0,1,0,1,2,2,0,1,0,1,3,3,4,4,0,1,5,5,2>>),
  ATTENTION |-> Shaking(Anim(5, 7, 10, <<0,4,0,1,0,2,0,3,4,4,0,1,2,0,5,3,0,0,6,0>>),
      Only(4, 1)),
  CELEBRATE |-> Bobbing(Anim(3, 6, 12, <<0,1,2,1,0,3,4,3,4,0,1,2,1,0,5,5>>),
      <<0,-2,-7,-2,0,0,0,0,0,0,-2,-7,-2,0,0,0>>),
  DIZZY |-> Swaying(Anim(4, 5, 12, <<0,1,0,1,2,3,0,1,0,1,4,4,2,3>>),
      <<-3,3,-3,3,0,0,-3,3,-3,3,0,0,0,0>>),
  HEART |-> Bobbing(Anim(5, 5, 10, <<0,0,1,0,2,2,0,1,0,4,0,0,3,3,0,1,0,2,1,0>>),
      <<0,-1,0,-1,0,-1,0,-1,0,0,-1,0,0,0,-1,0,-1,0,-1,0>>)]

CatIdle ==
  <<0,0,0,3,0,1,0,2,0,7,8,7,8,7,0,5,0,6,0,4,4,0,9,9,9,0,0,3,0,8,7,8,7,0,0,4,0>>
Cat == [
  SLEEP |-> Anim(5, 6, 10, <<0,1,0,1,0,1,3,3,0,1,4,5,4,5,4,5,2,2,0,1,0,1,5,5,4,4>>),
  IDLE |-> Anim(5, 10, 9, CatIdle),
  BUSY |-> Anim(5, 6, 9, <<2,2,2,0,1,0,1,3,4,3,4,5,5,2,2,0,1,0,1,5,2>>),
  ATTENTION |-> Shaking(Anim(5, 6, 11, <<0,4,0,1,0,2,0,3,4,4,0,1,2,0,5,0>>), Only(4, 1)),
  CELEBRATE |-> Bobbing(Anim(3, 6, 10, <<0,1,2,1,0,3,4,3,4,0,1,2,1,0,5,5>>),
      <<0,-3,-6,-3,0,0,0,0,0,0,-3,-6,-3,0,0,0>>),
  DIZZY |-> Swaying(Anim(4, 5, 10, <<0,1,0,1,2,3,0,1,0,1,4,4,2,3>>),
      <<-3,3,-3,3,0,0,-3,3,-3,3,0,0,0,0>>),
  HEART |-> Bobbing(Anim(5, 5, 9, <<0,0,1,0,2,2,0,1,0,4,0,0,3,3,0,1,0,2,1,0>>),
      <<0,-1,0,-1,0,-1,0,-1,0,0,-1,0,0,0,-1,0,-1,0,-1,0>>)]

DragonIdle == <<0,0,1,0,2,0,3,4,5,4,5,4,5,0,0,6,7,0,3,0,8,8,0,1,2,0,9,9,0,0,7,0,8,0>>
Dragon == [
  SLEEP |-> Anim(5, 6, 11, <<0,1,0,1,0,1,2,1,0,1,0,1,3,4,3,4,1,2,1,5,5,0,0,1,2,1,2>>),
  IDLE |-> Anim(5, 10, 13, DragonIdle),
  BUSY |-> Anim(5, 6, 11, <<0,1,0,1,0,1,2,2,0,1,0,1,3,3,2,4,0,1,0,1,5>>),
  ATTENTION |-> Shaking(Anim(5, 6, 12, <<0,4,0,1,0,2,0,3,4,4,0,1,2,3,5,0>>), Only(4, 1)),
  CELEBRATE |-> Bobbing(Anim(3, 6, 12, <<0,1,2,1,0,3,4,3,4,0,1,2,1,0,5,5>>),
      <<0,-3,-6,-3,0,0,0,0,0,0,-3,-6,-3,0,0,0>>),
  DIZZY |-> Swaying(Anim(4, 5, 11, <<0,1,0,1,2,3,0,1,0,1,4,4,2,3>>),
      <<-3,3,-3,3,0,0,-3,3,-3,3,0,0,0,0>>),
  HEART |-> Bobbing(Anim(5, 5, 11, <<0,0,1,0,2,2,0,1,0,4,0,0,3,3,0,1,0,2,1,0>>),
      <<0,-1,0,-1,0,-1,0,-1,0,0,-1,0,0,0,-1,0,-1,0,-1,0>>)]

OctopusIdle == <<0,1,0,1,0,2,1,3,0,1,4,0,5,6,5,6,0,1,0,4,1,0,7,7,0,1,8,8,0,1,9,9,0,1>>
Octopus == [
  SLEEP |-> Anim(5, 6, 9, <<0,0,1,1,0,0,2,2,1,1,0,0,3,3,4,4,3,4,1,1,2,2,0,5,1,1>>),
  IDLE |-> Anim(5, 10, 10, OctopusIdle),
  BUSY |-> Anim(5, 6, 9, <<0,1,0,1,0,1,2,2,0,1,0,1,3,3,2,4,0,1,0,1,5>>),
  ATTENTION |-> Shaking(Anim(5, 6, 10, <<0,4,0,1,0,2,0,3,4,4,0,1,2,0,5,0>>), Only(4, 1)),
  CELEBRATE |-> Bobbing(Anim(3, 6, 10, <<0,1,2,1,0,3,4,3,4,0,1,2,1,0,5,5>>),
      <<0,-3,-6,-3,0,0,0,0,0,0,-3,-6,-3,0,0,0>>),
  DIZZY |-> Swaying(Anim(4, 5, 9, <<0,1,0,1,2,3,0,1,0,1,4,4,2,3>>),
      <<-3,3,-3,3,0,0,-3,3,-3,3,0,0,0,0>>),
  HEART |-> Bobbing(Anim(5, 6, 10, <<0,0,1,0,2,2,0,1,0,4,0,0,3,3,0,1,0,2,5,5,1,0>>),
      <<0,-1,0,-1,0,-1,0,-1,0,0,-1,0,0,0,-1,0,-1,0,0,-1,0,-1>>)]

OwlIdle == <<0,0,0,1,0,0,2,2,0,3,3,0,1,0,4,4,0,5,5,0,6,0,7,7,0,8,8,0,9,9,0,0>>
Owl == [
  SLEEP |-> Anim(5, 6, 9, <<0,1,0,1,2,2,1,0,1,0,3,3,0,4,4,0,1,2,2,1,0,5,0,0>>),
  IDLE |-> Anim(5, 10, 10, OwlIdle),
  BUSY |-> Anim(5, 6, 9, <<0,1,0,2,0,1,0,2,3,3,0,1,0,2,5,5,0,1,4,4,0,2,0,1,3>>),
  ATTENTION |-> Shaking(Anim(5, 6, 12, <<0,4,0,1,0,2,0,3,4,4,0,1,2,0,5,0>>), Only(4, 1)),
  CELEBRATE |-> Bobbing(Anim(3, 6, 10, <<0,1,2,1,0,3,4,3,4,0,1,2,1,0,5,5>>),
      <<0,-4,-7,-4,0,0,0,0,0,0,-4,-7,-4,0,0,0>>),
  DIZZY |-> Swaying(Anim(4, 5, 8, <<0,1,0,1,2,3,0,1,0,1,4,4,2,3>>),
      <<-3,3,-3,3,0,0,-3,3,-3,3,0,0,0,0>>),
  HEART |-> Bobbing(Anim(5, 5, 10, <<0,0,1,0,2,2,0,1,0,4,0,0,3,3,0,1,0,2,1,0>>),
      <<0,-1,0,-1,0,-1,0,-1,0,0,-1,0,0,0,-1,0,-1,0,-1,0>>)]

PenguinIdle == <<0,0,1,2,1,2,0,3,0,4,0,5,0,6,6,0,3,0,1,2,1,2,0,7,7,0,0,8,8,0,9,9,0,0>>
Penguin == [
  SLEEP |-> Anim(5, 6, 10, <<0,1,0,1,0,1,2,1,0,1,0,1,3,4,3,4,3,4,3,3,1,5,1,1>>),
  IDLE |-> Anim(5, 10, 11, PenguinIdle),
  BUSY |-> Anim(5, 6, 9, <<0,1,0,1,0,1,2,2,0,1,0,1,3,3,2,4,0,1,0,1,5>>),
  ATTENTION |-> Shaking(Anim(5, 6, 11, <<0,4,0,1,0,2,0,3,4,4,0,1,2,0,5,0>>), Only(4, 1)),
  CELEBRATE |-> Bobbing(Anim(3, 6, 9, <<0,1,2,1,0,3,4,3,4,0,1,2,1,0,5,5>>),
      <<0,-3,-6,-3,0,0,0,0,0,0,-3,-6,-3,0,0,0>>),
  DIZZY |-> Swaying(Anim(4, 5, 10, <<0,1,0,1,2,3,0,1,0,1,4,4,2,3>>),
      <<-3,3,-3,3,0,0,-3,3,-3,3,0,0,0,0>>),
  HEART |-> Bobbing(Anim(5, 5, 9, <<0,0,1,0,2,2,0,1,0,4,0,0,3,3,0,1,0,2,1,0>>),
      <<0,-1,0,-1,0,-1,0,-1,0,0,-1,0,0,0,-1,0,-1,0,-1,0>>)]

TurtleIdle ==
  <<0,0,0,1,0,2,0,3,0,0,4,4,0,5,5,0,0,3,0,0,7,8,7,8,7,8,0,0,6,6,0,0,3,0,0,9,9,9,0,0>>
Turtle == [
  SLEEP |-> Anim(5, 6, 10, <<0,0,0,0,1,0,2,3,2,3,2,3,2,3,0,0,4,4,4,2,3,2,3,1,5,1,0>>),
  IDLE |-> Anim(5, 10, 12, TurtleIdle),
  BUSY |-> Anim(5, 6, 10, <<0,1,0,1,0,1,2,2,0,1,0,1,3,3,3,2,4,0,1,0,1,5>>),
  ATTENTION |-> Shaking(Anim(5, 6, 11, <<0,4,0,1,0,2,0,3,4,4,0,1,2,0,5,0>>), Only(4, 1)),
  CELEBRATE |-> Bobbing(Anim(3, 6, 11, <<0,1,2,1,0,3,4,3,4,0,1,2,1,0,5,5>>),
      <<0,-3,-6,-3,0,0,0,0,0,0,-3,-6,-3,0,0,0>>),
  DIZZY |-> Swaying(Anim(4, 5, 10, <<0,1,0,1,2,3,0,1,0,1,4,4,2,3>>),
      <<-3,3,-3,3,0,0,-3,3,-3,3,0,0,0,0>>),
  HEART |-> Bobbing(Anim(5, 5, 10, <<0,0,1,0,2,2,0,1,0,4,0,0,3,3,0,1,0,2,1,0>>),
      <<0,-1,0,-1,0,-1,0,-1,0,0,-1,0,0,0,-1,0,-1,0,-1,0>>)]

SnailIdle == <<0,0,0,1,0,2,0,4,0,5,6,5,6,0,0,0,3,3,0,4,7,8,7,8,0,9,9,9,0,0>>
Snail == [
  SLEEP |-> Anim(5, 6, 10, <<0,1,0,1,0,1,2,1,0,1,0,1,3,3,3,3,4,4,4,4,1,5,1,1>>),
  IDLE |-> Anim(5, 10, 11, SnailIdle),
  BUSY |-> Anim(5, 6, 10, <<0,1,2,3,0,1,2,3,4,4,0,1,2,3,4,4,5,0,1,2,3>>),
  ATTENTION |-> Shaking(Anim(5, 6, 12, <<0,4,0,1,0,2,0,3,4,4,0,1,2,0,5,0>>), Only(4, 1)),
  CELEBRATE |-> Bobbing(Anim(3, 6, 12, <<0,1,2,1,0,3,4,3,4,0,1,2,1,0,5,5>>),
      <<0,-3,-6,-3,0,0,0,0,0,0,-3,-6,-3,0,0,0>>),
  DIZZY |-> Swaying(Anim(4, 5, 10, <<0,1,0,1,2,3,0,1,0,1,4,4,2,3>>),
      <<-3,3,-3,3,0,0,-3,3,-3,3,0,0,0,0>>),
  HEART |-> Bobbing(Anim(5, 5, 10, <<0,0,1,0,2,2,0,1,0,4,0,0,3,3,0,1,0,2,1,0>>),
      <<0,-1,0,-1,0,-1,0,-1,0,0,-1,0,0,0,-1,0,-1,0,-1,0>>)]

GhostSleep == <<0,1,0,1,0,1,5,5,0,1,0,1,2,2,3,3,4,4,0,1,0,1,5,5,2,3,4,0,1>>
GhostSleepBob ==
  <<0,-1,0,-1,0,-1,0,-1,-1,-2,-1,-2,-2,-3,-3,-3,-2,-1,-1,0,0,-1,0,-1,-1,-2,-1,0,-1>>
GhostIdle == <<0,0,6,7,0,1,0,2,0,4,0,6,5,5,0,0,7,6,0,3,0,4,8,8,0,0,9,9,0,6,7,0>>
GhostIdleBob ==
  <<0,-1,-1,0,-1,0,-1,0,-1,0,-1,-1,-1,0,-1,0,0,-1,0,-1,0,-1,-2,-1,-1,0,-1,0,-1,0,-1,
    0>>
Ghost == [
  SLEEP |-> Bobbing(Anim(5, 6, 10, GhostSleep), GhostSleepBob),
  IDLE |-> Bobbing(Anim(5, 10, 10, GhostIdle), GhostIdleBob),
  BUSY |-> Anim(5, 6, 10, <<0,1,0,1,0,1,2,2,0,1,0,1,3,3,2,4,0,1,0,1,5>>),
  ATTENTION |-> Shaking(Anim(5, 6, 10, <<0,4,0,1,0,2,0,3,4,4,0,1,2,0,5,0>>), Only(4, 1)),
  CELEBRATE |-> Bobbing(Anim(3, 6, 10, <<0,1,2,1,0,3,4,3,4,0,1,2,1,0,5,5>>),
      <<0,-3,-6,-3,0,0,0,0,0,0,-3,-6,-3,0,0,0>>),
  DIZZY |-> Swaying(Anim(4, 5, 10, <<0,1,0,1,2,3,0,1,0,1,4,4,2,3>>),
      <<-3,3,-3,3,0,0,-3,3,-3,3,0,0,0,0>>),
  HEART |-> Bobbing(Anim(5, 5, 10, <<0,0,1,0,2,2,0,1,0,4,0,0,3,3,0,1,0,2,1,0>>),
      <<-1,-2,-1,-2,-1,-2,-1,-2,-1,-1,-2,-1,-1,-1,-2,-1,-2,-1,-2,-1>>)]

AxolotlIdle == <<0,0,0,1,0,2,0,4,0,5,0,6,0,7,8,7,8,0,0,3,3,0,4,9,9,0,0,1,2,1,2,0>>
Axolotl == [
  SLEEP |-> Anim(5, 6, 12, <<0,1,0,1,0,1,2,1,0,1,0,1,3,3,4,4,3,4,3,3,1,5,1,1>>),
  IDLE |-> Anim(5, 10, 12, AxolotlIdle),
  BUSY |-> Anim(5, 6, 12, <<0,1,0,1,0,1,2,2,0,1,0,1,3,3,2,4,0,1,0,1,5>>),
  ATTENTION |-> Shaking(Anim(5, 6, 15, <<0,4,0,1,0,2,0,3,4,4,0,1,2,0,5,0>>), Only(4, 1)),
  CELEBRATE |-> Bobbing(Anim(3, 6, 12, <<0,1,2,1,0,3,4,3,4,0,1,2,1,0,5,5>>),
      <<0,-3,-6,-3,0,0,0,0,0,0,-3,-6,-3,0,0,0>>),
  DIZZY |-> Swaying(Anim(4, 5, 12, <<0,1,0,1,2,3,0,1,0,1,4,4,2,3>>),
      <<-3,3,-3,3,0,0,-3,3,-3,3,0,0,0,0>>),
  HEART |-> Bobbing(Anim(5, 6, 12, <<0,0,1,0,2,2,0,1,0,4,0,0,3,3,0,1,0,2,5,0>>),
      <<0,-1,0,-1,0,-1,0,-1,0,0,-1,0,0,0,-1,0,-1,0,-1,0>>)]

CactusIdle == <<0,0,0,1,0,2,0,4,0,3,0,0,5,5,0,6,6,0,0,7,8,7,8,0,9,9,0,4,0,0,1,2,0>>
Cactus == [
  SLEEP |-> Anim(5, 6, 9, <<0,1,0,1,0,1,2,1,0,1,0,1,3,3,4,4,3,4,0,0,1,5,1,1>>),
  IDLE |-> Anim(5, 10, 11, CactusIdle),
  BUSY |-> Anim(5, 6, 11, <<0,1,0,1,0,1,2,2,0,1,0,1,3,3,2,4,0,1,0,1,5>>),
  ATTENTION |-> Shaking(Anim(5, 6, 12, <<0,4,0,1,0,2,0,3,4,4,0,1,2,0,5,0>>), Only(4, 1)),
  CELEBRATE |-> Bobbing(Anim(3, 6, 11, <<0,1,2,1,0,3,4,3,4,0,1,2,1,0,5,5>>),
      <<0,-3,-6,-3,0,0,0,0,0,0,-3,-6,-3,0,0,0>>),
  DIZZY |-> Swaying(Anim(4, 5, 11, <<0,1,0,1,2,3,0,1,0,1,4,4,2,3>>),
      <<-3,3,-3,3,0,0,-3,3,-3,3,0,0,0,0>>),
  HEART |-> Bobbing(Anim(5, 5, 10, <<0,0,1,0,2,2,0,1,0,4,0,0,3,3,0,1,0,2,1,0>>),
      <<0,-1,0,-1,0,-1,0,-1,0,0,-1,0,0,0,-1,0,-1,0,-1,0>>)]

RobotIdle == <<0,0,1,1,0,2,2,0,3,0,0,4,5,4,5,0,6,7,6,7,0,0,8,8,0,9,9,0,3,0>>
Robot == [
  SLEEP |-> Anim(5, 6, 10, <<0,1,2,1,0,1,2,1,0,0,3,3,4,4,4,3,0,1,2,1,0,5,0,1,0>>),
  IDLE |-> Anim(5, 10, 10, RobotIdle),
  BUSY |-> Anim(5, 6, 10, <<0,1,0,1,0,1,2,2,0,1,0,1,3,3,2,4,0,1,0,1,5>>),
  ATTENTION |-> Shaking(Anim(5, 6, 12, <<0,4,0,1,0,2,0,3,4,4,0,1,2,0,5,0>>), Only(4, 1)),
  CELEBRATE |-> Bobbing(Anim(3, 6, 10, <<0,1,2,1,0,3,4,3,4,0,1,2,1,0,5,5>>),
      <<0,-3,-6,-3,0,0,0,0,0,0,-3,-6,-3,0,0,0>>),
  DIZZY |-> Swaying(Anim(4, 5, 10, <<0,1,0,1,2,3,0,1,0,1,4,4,2,3>>),
      <<-3,3,-3,3,0,0,-3,3,-3,3,0,0,0,0>>),
  HEART |-> Bobbing(Anim(5, 5, 10, <<0,0,1,0,2,2,0,1,0,4,0,0,3,3,0,1,0,2,1,0>>),
      <<0,-1,0,-1,0,-1,0,-1,0,0,-1,0,0,0,-1,0,-1,0,-1,0>>)]

RabbitIdle == <<0,0,0,1,0,2,0,4,0,5,0,0,6,7,6,7,0,0,3,3,0,4,8,8,0,0,9,9,0,0>>
Rabbit == [
  SLEEP |-> Anim(5, 6, 9, <<0,1,0,1,0,1,4,1,0,1,0,1,3,3,3,3,2,2,1,5,1,1>>),
  IDLE |-> Anim(5, 10, 13, RabbitIdle),
  BUSY |-> Anim(5, 6, 9, <<0,1,0,1,0,1,2,2,0,1,0,1,3,3,2,4,0,1,0,1,5>>),
  ATTENTION |-> Shaking(Anim(5, 6, 9, <<0,4,0,1,0,2,0,3,4,4,0,1,2,0,5,0>>), Only(4, 1)),
  CELEBRATE |-> Bobbing(Anim(3, 6, 10, <<0,1,2,1,0,3,4,3,4,0,1,2,1,0,5,5>>),
      <<0,-4,-8,-4,0,0,0,0,0,0,-4,-8,-4,0,0,0>>),
  DIZZY |-> Swaying(Anim(4, 5, 10, <<0,1,0,1,2,3,0,1,0,1,4,4,2,3>>),
      <<-3,3,-3,3,0,0,-3,3,-3,3,0,0,0,0>>),
  HEART |-> Bobbing(Anim(5, 5, 9, <<0,0,1,0,2,2,0,1,0,4,0,0,3,3,0,1,0,2,1,0>>),
      <<0,-1,0,-1,0,-1,0,-1,0,0,-1,0,0,0,-1,0,-1,0,-1,0>>)]

MushroomIdle == <<0,0,0,1,0,2,0,4,0,5,0,0,6,7,6,7,0,0,3,3,0,4,8,8,0,0,9,9,0,0>>
Mushroom == [
  SLEEP |-> Anim(5, 6, 12, <<0,1,0,1,0,1,2,1,0,1,0,1,3,4,3,4,3,4,3,3,1,5,1,1>>),
  IDLE |-> Anim(5, 10, 12, MushroomIdle),
  BUSY |-> Anim(5, 6, 12, <<0,1,0,1,0,1,2,2,0,1,0,1,3,3,2,4,0,1,0,1,5>>),
  ATTENTION |-> Shaking(Anim(5, 6, 12, <<0,4,0,1,0,2,0,3,4,4,0,1,2,0,5,0>>), Only(4, 1)),
  CELEBRATE |-> Bobbing(Anim(3, 6, 12, <<0,1,2,1,0,3,4,3,4,0,1,2,1,0,5,5>>),
      <<0,-3,-6,-3,0,0,0,0,0,0,-3,-6,-3,0,0,0>>),
  DIZZY |-> Swaying(Anim(4, 5, 12, <<0,1,0,1,2,3,0,1,0,1,4,4,2,3>>),
      <<-3,3,-3,3,0,0,-3,3,-3,3,0,0,0,0>>),
  HEART |-> Bobbing(Anim(5, 5, 12, <<0,0,1,0,2,2,0,1,0,4,0,0,3,3,0,1,0,2,1,0>>),
      <<0,-1,0,-1,0,-1,0,-1,0,0,-1,0,0,0,-1,0,-1,0,-1,0>>)]

ChonkSleep == <<0,0,0,1,2,1,2,1,2,1,2,3,3,1,2,1,2,1,2,5,4,5,4,0,0,1,2,3,2>>
ChonkIdle ==
  <<0,0,0,4,0,1,1,0,2,2,0,4,5,0,6,0,0,3,3,0,7,8,7,8,0,0,4,0,9,9,0,0,0,5,6,0>>
Chonk == [
  SLEEP |-> Twitching(Anim(5, 6, 12, ChonkSleep), {5}),
  IDLE |-> Anim(5, 10, 12, ChonkIdle),
  BUSY |-> Anim(5, 6, 10, <<1,2,1,2,1,2,0,0,1,2,1,2,3,3,3,4,4,1,2,1,2,5,5>>),
  ATTENTION |-> Shaking(Anim(5, 6, 10, <<0,4,0,1,0,2,0,3,4,4,0,1,2,0,5,0>>), Only(4, 2)),
  CELEBRATE |-> Bobbing(Anim(3, 6, 12, <<0,1,2,1,0,3,4,3,4,0,1,2,1,0,5,5>>),
      <<0,-3,-7,-3,0,0,0,0,0,0,-3,-7,-3,0,0,0>>),
  DIZZY |-> Swaying(Anim(4, 5, 12, <<0,1,0,1,2,3,0,1,0,1,4,4,2,3>>),
      <<-4,4,-4,4,0,0,-4,4,-4,4,0,0,0,0>>),
  HEART |-> Bobbing(Anim(5, 6, 12, <<0,0,1,0,2,2,0,1,0,4,0,0,3,3,0,1,0,2,5,5,0,1,0>>),
      <<0,-1,0,-1,0,-1,0,-1,0,0,-1,0,0,0,-1,0,-1,0,0,-1,0,-1,0>>)]
-----------------------------------------------------------------------------
(* The renderer.                                                            *)

kSpeciesTable ==
  <<Capybara, Duck, Goose, Blob, Cat, Dragon, Octopus, Owl, Penguin, Turtle,
    Snail, Ghost, Axolotl, Cactus, Robot, Rabbit, Mushroom, Chonk>>

SpeciesCount == Len(kSpeciesTable)
Species == 0 .. SpeciesCount - 1

\* A number that is no species, the GIF's among them, is drawn as the first one.
EffectiveSpecies(s) == IF s < SpeciesCount THEN s ELSE 0

Animation(s, state) == kSpeciesTable[EffectiveSpecies(s) + 1][state]

\* C's division rounds towards zero, so what lies left of or above the canvas is
\* sent to -1 first.
Column(x) == IF x < 0 THEN -1 ELSE x \div BUDDY_CHAR_W
Row(y) == IF y < 0 THEN -1 ELSE y \div BUDDY_CHAR_H

\* set_cell: what falls outside the frame is dropped.
InFrame(cell) ==
  cell[1] \in 0 .. BUDDY_ASCII_COLS - 1 /\ cell[2] \in 0 .. BUDDY_ASCII_ROWS - 1

\* buddyPrintLine: every line is trimmed and centred.
LineStart(len, dx) == BUDDY_X_CENTER - (len * BUDDY_CHAR_W) \div 2 + dx

LineCells(len, y, dx) ==
  {cell \in {<<Column(LineStart(len, dx) + i * BUDDY_CHAR_W), Row(y)>> :
               i \in 0 .. len - 1} : InFrame(cell)}

\* buddyPrintSprite: one row of text to a line.
SpriteLine(line, dy) == BUDDY_Y_BASE + dy + line * BUDDY_CHAR_H

Beat(anim, t) == (t \div anim.beatTicks) % Len(anim.seq)

\* The arrays of the source start at 0.
At(table, beat) == table[beat + 1]
PoseAt(anim, t) == At(anim.seq, Beat(anim, t))

Odd(t) == t % 2 = 1

ShiftX(anim, t) ==
  IF anim.dx # <<>> THEN At(anim.dx, Beat(anim, t))
  ELSE IF PoseAt(anim, t) \in DOMAIN anim.shake
       THEN (IF Odd(t) THEN 1 ELSE -1) * anim.shake[PoseAt(anim, t)]
       ELSE 0

ShiftY(anim, t) ==
  IF anim.dy # <<>> THEN At(anim.dy, Beat(anim, t))
  ELSE IF PoseAt(anim, t) \in anim.twitch /\ Odd(t) THEN 1 ELSE 0

\* The ticks after which an animation repeats, odd and even ones.
Cycle(anim) == 0 .. 2 * anim.beatTicks * Len(anim.seq) - 1

-----------------------------------------------------------------------------
(* What a frame owes its animation, at every tick.                          *)

\* The tables have an entry for the beat, and the pose it names exists.
TablesCover(anim, t) ==
  /\ Beat(anim, t) + 1 \in DOMAIN anim.seq
  /\ anim.dx # <<>> => Beat(anim, t) + 1 \in DOMAIN anim.dx
  /\ anim.dy # <<>> => Beat(anim, t) + 1 \in DOMAIN anim.dy
  /\ PoseAt(anim, t) \in 0 .. anim.poses - 1

\* No character of the sprite is lost at an edge, and no two share a cell.
DrawnWhole(anim, t) ==
  \A line \in 0 .. SpriteLines - 1 :
    /\ Cardinality(LineCells(anim.widest, SpriteLine(line, ShiftY(anim, t)),
                             ShiftX(anim, t))) = anim.widest
    /\ line > 0 => Row(SpriteLine(line, ShiftY(anim, t)))
                     = Row(SpriteLine(line - 1, ShiftY(anim, t))) + 1
=============================================================================
