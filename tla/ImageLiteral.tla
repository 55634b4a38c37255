---------------------------- MODULE ImageLiteral ----------------------------
(***************************************************************************)
(* The brain editor's literal type for Image values: the grid of LEDs a    *)
(* person draws on in the create-literal dialog, the pixel digits the      *)
(* dialog keeps, and the Image struct value a placed tile carries.         *)
(*                                                                         *)
(* An Image value is a record of a width, a height and a buffer (a         *)
(* sequence of bytes).  A pixel digit is the number its hex digit writes.  *)
(* picture is what the first tile showed, cell by cell, before anything    *)
(* packed it into a buffer, and touched the cells tapped since: they are   *)
(* history, read by the properties alone.                                  *)
(***************************************************************************)
EXTENDS Integers, Sequences, FiniteSets, SequencesExt

CONSTANTS GridSize,    \* side of the LED matrix and of the editor's grid
          Pictures,    \* the pictures a brain may hold: see PictureOK
          Icons,       \* the built-in ones, as the lit cells of their art
          Wells,       \* indices of the grid a person taps
          Levels,      \* brightness levels the slider is moved to
          MaxTaps      \* bound on the taps of a behaviour

LevelCount == 16
LevelStep == 17
Lit == 255
PixelCount == GridSize * GridSize

GridParameters ==
    /\ GridSize \in Nat \ {0} /\ MaxTaps \in Nat
    /\ Wells \subseteq 0 .. PixelCount - 1 /\ Levels \subseteq 0 .. LevelCount - 1

VARIABLES tile,      \* the Image value the placed tile carries
          open,      \* is the dialog open?
          state,     \* the dialog's input state: the digits, or <<>> for none
          level,     \* where the editor's slider stands
          picture,   \* history: the picture the first tile was made from
          touched,   \* history: the cells tapped in a dialog that was saved
          dabs       \* the cells tapped in the open dialog

vars == <<tile, open, state, level, picture, touched, dabs>>

-----------------------------------------------------------------------------
(* Image values *)

\* A picture: its size, the brightness of each cell, and how many of its
\* bytes the buffer got.
PictureOK(p) ==
    /\ p.width \in Nat /\ p.height \in Nat
    /\ p.cells \in [(0 .. p.height - 1) \X (0 .. p.width - 1) -> 0 .. 255]
    /\ p.held \in 0 .. p.width * p.height
PictureParameters ==
    /\ \A p \in Pictures : PictureOK(p)
    /\ Icons \subseteq SUBSET ((0 .. GridSize - 1) \X (0 .. GridSize - 1))

MkImage(width, height, pixels) == [width |-> width, height |-> height, pixels |-> pixels]

\* The picture's bytes, row after row, as its tile carries them.
Packed(p) ==
    MkImage(p.width, p.height,
            [k \in 1 .. p.held |-> p.cells[<<(k - 1) \div p.width, (k - 1) % p.width>>]])

LevelBrightness(l) == l * LevelStep

IsGridDigits(digits) ==
    /\ Len(digits) = PixelCount
    /\ \A k \in 1 .. Len(digits) : digits[k] \in 0 .. LevelCount - 1

ValueFromDigits(digits) ==
    MkImage(GridSize, GridSize, [k \in DOMAIN digits |-> LevelBrightness(digits[k])])

\* Mutant: rows are taken to be as wide as the grid.
ByteAtGrid(image, row, col) ==
    LET index == row * GridSize + col
    IN  IF row < image.height /\ col < image.width /\ index < Len(image.pixels)
        THEN image.pixels[index + 1]
        ELSE 0

\* The byte at a buffer's index, where a read outside it is 0.
ByteAt(image, row, col) ==
    LET index == row * image.width + col
    IN  IF row < image.height /\ col < image.width /\ index < Len(image.pixels)
        THEN image.pixels[index + 1]
        ELSE 0

GridBytes(image) ==
    [k \in 1 .. PixelCount |-> ByteAt(image, (k - 1) \div GridSize, (k - 1) % GridSize)]

\* Math.round(brightness / kLevelStep), of whole brightnesses.
NearestLevel(brightness) == (2 * brightness + LevelStep) \div (2 * LevelStep)

DigitsFromValue(image) ==
    LET bytes == GridBytes(image) IN [k \in 1 .. PixelCount |-> NearestLevel(bytes[k])]

\* A built-in icon, from the set of its art's lit cells.
BuiltInPicture(art) ==
    [width |-> GridSize, height |-> GridSize, held |-> PixelCount,
     cells |-> [c \in (0 .. GridSize - 1) \X (0 .. GridSize - 1) |-> IF c \in art THEN Lit ELSE 0]]

-----------------------------------------------------------------------------
(* What "draw image" makes of the value on the device *)

\* The top left of an image, clipped to the display.
ClipImage(image) ==
    LET width == IF image.width < GridSize THEN image.width ELSE GridSize
        height == IF image.height < GridSize THEN image.height ELSE GridSize
        At(row, col) == row * image.width + col + 1
    IN  [width |-> width, height |-> height,
         frame |-> [k \in 1 .. width * height |->
                      LET index == At((k - 1) \div width, (k - 1) % width)
                      IN  IF index <= Len(image.pixels) THEN image.pixels[index] ELSE 0]]

\* The matrix once the clipped frame is pasted at its top left, over nothing.
Painted(clipped) ==
    [k \in 1 .. PixelCount |->
        LET row == (k - 1) \div GridSize
            col == (k - 1) % GridSize
        IN  IF row < clipped.height /\ col < clipped.width
            THEN clipped.frame[row * clipped.width + col + 1]
            ELSE 0]

-----------------------------------------------------------------------------
(* The dialog *)

Blank == [k \in 1 .. PixelCount |-> 0]

GridDigits == IF state = <<>> THEN Blank ELSE state

\* A lit pixel goes unlit and an unlit one takes the level.
PaintGridDigit(digits, index, l) ==
    LET painted == IF digits[index + 1] = 0 THEN l ELSE 0
    IN  SubSeq(digits, 1, index) \o <<painted>> \o SubSeq(digits, index + 2, Len(digits))

Init ==
    /\ picture \in Pictures \cup {BuiltInPicture(art) : art \in Icons}
    /\ tile = Packed(picture)
    /\ open = FALSE
    /\ state = <<>>
    /\ level = LevelCount - 1
    /\ touched = {}
    /\ dabs = <<>>

\* The dialog opens on the tile's value; the editor mounts with full light.
Open ==
    /\ ~open
    /\ open' = TRUE
    /\ state' = DigitsFromValue(tile)
    /\ level' = LevelCount - 1
    /\ dabs' = <<>>
    /\ UNCHANGED <<tile, picture, touched>>

SetLevel(l) ==
    /\ open
    /\ level' = l
    /\ UNCHANGED <<tile, open, state, picture, touched, dabs>>

Tap(index) ==
    /\ open
    /\ Len(dabs) + Cardinality(touched) < MaxTaps
    /\ state' = PaintGridDigit(GridDigits, index, level)
    /\ dabs' = Append(dabs, index)
    /\ UNCHANGED <<tile, open, level, picture, touched>>

\* The dialog's OK: offered while the input state is valid.
Save ==
    /\ open
    /\ IsGridDigits(GridDigits)
    /\ tile' = ValueFromDigits(GridDigits)
    /\ touched' = touched \cup Range(dabs)
    /\ open' = FALSE
    /\ state' = <<>>
    /\ UNCHANGED <<level, picture, dabs>>

Cancel ==
    /\ open
    /\ open' = FALSE
    /\ state' = <<>>
    /\ UNCHANGED <<tile, level, picture, touched, dabs>>

Next ==
    \/ Open
    \/ Save
    \/ Cancel
    \/ \E l \in Levels : SetLevel(l)
    \/ \E index \in Wells : Tap(index)

Spec == Init /\ [][Next]_vars

-----------------------------------------------------------------------------
(* Properties *)

TypeOK ==
    /\ tile.width \in Nat /\ tile.height \in Nat
    /\ \A k \in DOMAIN tile.pixels : tile.pixels[k] \in 0 .. 255
    /\ state = <<>> \/ IsGridDigits(state)
    /\ level \in 0 .. LevelCount - 1

Spread(a, b) == IF a < b THEN b - a ELSE a - b

\* What the first picture showed at a cell of the grid.
Shown(row, col) ==
    IF row < picture.height /\ col < picture.width /\ row * picture.width + col < picture.held
    THEN picture.cells[<<row, col>>]
    ELSE 0

\* However often an image is opened, painted and saved, a cell nobody tapped
\* stays what the first picture showed there, to half a brightness step: the
\* rounding to levels never adds up, an image of another size is read from its
\* own top left, and a tap repaints its own LED only (imageGridBytes,
\* imageDigitsFromValue, paintGridDigit).
UntouchedKept ==
    LET bytes == GridBytes(tile)
    IN  \A row, col \in 0 .. GridSize - 1 :
            LET index == row * GridSize + col
            IN  index \notin touched
                    => 2 * Spread(bytes[index + 1], Shown(row, col)) < LevelStep

\* A saved tile previews the very lights the editor showed, and opens again on
\* the digits that were drawn (parseValue and toInputState are inverses).
SavedAsDrawn ==
    [][Save => /\ GridBytes(tile') = [k \in 1 .. PixelCount |-> LevelBrightness(GridDigits[k])]
               /\ DigitsFromValue(tile') = GridDigits]_vars

\* The device draws the picture the placed tile previews, whatever the size of
\* the image: the app and the target each read the buffer their own way
\* (imageGridBytes, clipImage).
DrawnAsPreviewed == Painted(ClipImage(tile)) = GridBytes(tile)

\* A cell tapped twice in one dialog is lit as it was when the dialog opened,
\* unless a tap took the unlit level (paintGridDigit).
TwiceIsNothing ==
    open /\ 0 \notin Levels =>
        LET digits == GridDigits
            before == DigitsFromValue(tile)
        IN  \A index \in Wells :
                LET taps == Cardinality({k \in DOMAIN dabs : dabs[k] = index})
                IN  (taps % 2 = 0) <=> ((digits[index + 1] = 0) <=> (before[index + 1] = 0))
=============================================================================
