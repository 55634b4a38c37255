---------------------------- MODULE FirmwareImage ----------------------------
(***************************************************************************)
(* From a program to a device that runs it: the program file               *)
(* (wendoo/program-image.ts, program-image-binary.ts), its place in the    *)
(* firmware (firmware-patcher.ts, intel-hex.ts), the tools that put it     *)
(* there (cli/wodal.ts, build-kernel.ts with firmware-deploy.ts) and, as   *)
(* far as they rely on it, the loader and the boot of the device.          *)
(*                                                                         *)
(* A hex is a sequence of records.  A record carries RecordLength bytes    *)
(* and an address inside a bank of BankSize; a record of the address's     *)
(* upper part selects the bank.  The real ones are 16 and 2^16.  A file is *)
(* its encoding, what its envelope names as profile, the fields its        *)
(* envelope lacks, and its program; a program is its bytes, the second of  *)
(* which says how many follow.                                             *)
(***************************************************************************)
EXTENDS IntelHex, FiniteSets

CONSTANTS
    RecordLength, BankSize, Banks,  \* scaled layout of the address space
    PageSize,                       \* what a partial flash writes at once
    RegionOffset, RegionSize,       \* FirmwareMetadata
    Firmwares,                      \* the prebuilt firmwares, as hex
    Files,                          \* .mcprogram contents
    Builds,                         \* what the build kernel gets: a link outcome and a program
    MaxRecords,                     \* bound: records of a hex that is patched again
    NoHex

FlashSize == BankSize * Banks
Erased == 255
Magic == <<77, 67, 70, 82>>
FormatVersion == 1
HeaderSize == Len(Magic) + 1
Profile == 1   \* the numeric id of the one profile

LayoutParameters ==
    /\ RecordLength \in 1..255 /\ BankSize \in 1..256 /\ Banks \in Nat \ {0} /\ PageSize \in Nat \ {0}
    /\ BankSize % RecordLength = 0
    \* encodeDataRecords: "baseAddress must be 16-byte aligned"
    /\ RegionOffset \in Nat /\ RegionOffset % RecordLength = 0
    /\ RegionSize \in Nat /\ RegionOffset + RegionSize <= FlashSize
    /\ Firmwares # {} /\ NoHex \notin Firmwares

VARIABLES
    out,    \* the hex the last successful tool wrote
    origin, \* the hex and the program it was made from, and the program's encoding
    exit,   \* how the tool that just ran ended, and the errors it named
    flash,  \* the device's memory
    loaded, \* the program of the hex the device was flashed with
    boot    \* what the device did when it last started
vars == <<out, origin, exit, flash, loaded, boot>>

-----------------------------------------------------------------------------
(* intel-hex.ts, over the records of IntelHex *)
(* The bank is given before the first data record and wherever it changes. *)
(* Mutant of NeedsBank: once is enough.                                     *)
NeedsBankOnce(address, start) == address = start

NeedsBank(address, start) == address = start \/ address % BankSize = 0
DataRecords(start, bytes) ==
    FlattenSeq([k \in 1..(Len(bytes) + RecordLength - 1) \div RecordLength |->
        LET offset == (k - 1) * RecordLength
            address == start + offset
            last == IF offset + RecordLength < Len(bytes) THEN offset + RecordLength ELSE Len(bytes)
            record == Record(address % BankSize, DataType, SubSeq(bytes, offset + 1, last))
        IN  IF NeedsBank(address, start) THEN <<Record(0, UpperType, <<address \div BankSize>>), record>>
            ELSE <<record>>])

Eofs(hex) == {i \in DOMAIN hex : hex[i].type = EofType}
LastEof(hex) == CHOOSE i \in Eofs(hex) : \A j \in Eofs(hex) : j <= i
SpliceBeforeEof(hex, records) ==
    SubSeq(hex, 1, LastEof(hex) - 1) \o records \o SubSeq(hex, LastEof(hex), Len(hex))

(* A loader goes through the records up to the first that ends the file.   *)
Sound(r) == (Len(r.data) + r.address + r.type + ByteSum(r.data) + r.sum) % 256 = 0
Place(m, r) ==
    IF m.ended \/ ~m.sound THEN m
    ELSE IF ~Sound(r) THEN [m EXCEPT !.sound = FALSE]
    ELSE CASE r.type = EofType -> [m EXCEPT !.ended = TRUE]
           [] r.type = UpperType -> [m EXCEPT !.bank = Head(r.data)]
           [] OTHER -> LET start == m.bank * BankSize + r.address
                       IN  [m EXCEPT !.bytes = [a \in start..start + Len(r.data) - 1 |-> r.data[a - start + 1]] @@ @]
Loaded(hex) == FoldLeft(Place, [bank |-> 0, bytes |-> <<>>, ended |-> FALSE, sound |-> TRUE], hex)
Bytes(hex) == Loaded(hex).bytes

-----------------------------------------------------------------------------
(* firmware-patcher.ts: header and program, where they fit.                *)
Fits(program) == HeaderSize + Len(program) <= RegionSize
Payload(program) == Magic \o <<FormatVersion>> \o program
Patched(hex, program) == SpliceBeforeEof(hex, DataRecords(RegionOffset, Payload(program)))

(* program-image.ts: the errors of an envelope, in the order of its        *)
(* fields.  The parser of the service API names the fields that are        *)
(* missing; that a profile is not WODAL's is put where the profile is.     *)
Fields == <<"format", "profileId", "program">>
Named(file) == file.profile \notin {"none"}
Unsupported(file) == Named(file) /\ file.profile # "microbit-v2"
ParserErrors(file) == SelectSeq(Fields, LAMBDA field : field \in file.lacks \/ (field = "profileId" /\ ~Named(file)))
WithUnsupported(errors) ==
    IF \E i \in DOMAIN errors : errors[i] = "program"
    THEN LET i == CHOOSE i \in DOMAIN errors : errors[i] = "program"
         IN  InsertAt(errors, i, "profileId")
    ELSE Append(errors, "profileId")
Errors(file) == IF Unsupported(file) THEN WithUnsupported(ParserErrors(file)) ELSE ParserErrors(file)

(* wodalProgramBytes: a binary is taken as it is.                          *)
Rejected(file) == file.encoding = "json" /\ Errors(file) # <<>>

-----------------------------------------------------------------------------
Blank == [a \in 0..FlashSize - 1 |-> Erased]
NotRun == [code |-> "none", errors |-> <<>>]
Hexes == Firmwares \cup {hex \in {out} : hex # NoHex /\ Len(hex) <= MaxRecords}
Init == /\ out = NoHex /\ origin = [base |-> NoHex, program |-> <<>>, encoding |-> "none"]
        /\ exit = NotRun
        /\ flash = Blank /\ loaded = <<>> /\ boot = <<"off">>

Refused(code, errors) == exit' = [code |-> code, errors |-> errors] /\ UNCHANGED <<out, origin>>
(* patchFirmwareHex, where a firmware without an end makes the splice      *)
(* throw.                                                                  *)
Placing(hex, program, encoding) ==
    IF ~Fits(program) THEN Refused("too large", <<>>)
    ELSE IF Eofs(hex) = {} THEN Refused("threw", <<>>)
    ELSE /\ exit' = [code |-> "ok", errors |-> <<>>] /\ out' = Patched(hex, program)
         /\ origin' = [base |-> hex, program |-> program, encoding |-> encoding]

(* wodal patch; a firmware may be one that was patched before.             *)
Patch(hex, file) ==
    /\ IF Rejected(file) THEN Refused("invalid", Errors(file)) ELSE Placing(hex, file.program, file.encoding)
    /\ UNCHANGED <<flash, loaded, boot>>

(* buildWodalProgramImage: linking throws or gives no program, or the      *)
(* image is not made.                                                      *)
WodalBuildResult == {"ok", "link failed", "image failed"}
Built(build) == IF build.link # "linked" THEN "link failed" ELSE IF ~build.image THEN "image failed" ELSE "ok"

(* buildHexForBrain: what is built is patched into the bundled firmware.   *)
Deploy(hex, build) ==
    /\ IF Built(build) = "ok" THEN Placing(hex, build.program, "json") ELSE Refused(Built(build), <<>>)
    /\ UNCHANGED <<flash, loaded, boot>>

(* The library writes the pages the hex speaks of; where it cannot tell    *)
(* what the device holds it erases it first.                               *)
Page(a) == a \div PageSize
Pages(bytes) == {Page(a) : a \in DOMAIN bytes}
Flash(partial) ==
    /\ out # NoHex /\ Loaded(out).sound
    /\ LET bytes == Bytes(out)
           kept == {a \in DOMAIN flash : partial /\ Page(a) \notin Pages(bytes)}
       IN  flash' = bytes @@ [a \in kept |-> flash[a]] @@ Blank
    /\ loaded' = origin.program /\ boot' = <<"off">>
    /\ exit' = NotRun /\ UNCHANGED <<out, origin>>

(* The boot takes the program from the region; its reader stops where the  *)
(* program does.                                                           *)
Region == [i \in 1..RegionSize |-> flash[RegionOffset + i - 1]]
Read(bytes) ==
    IF Len(bytes) < 2 \/ 2 + bytes[2] > Len(bytes) THEN <<"L", "truncated">>
    ELSE IF bytes[1] # Profile THEN <<"L", "profile">> ELSE <<"runs", SubSeq(bytes, 1, 2 + bytes[2])>>
Boot == /\ boot' = IF \A i \in DOMAIN Magic : Region[i] = Erased THEN <<"R", 1>>
                   ELSE IF SubSeq(Region, 1, Len(Magic)) # Magic THEN <<"R", 2>>
                   ELSE IF Region[HeaderSize] # FormatVersion THEN <<"R", 3>>
                   ELSE Read(SubSeq(Region, HeaderSize + 1, RegionSize))
        /\ exit' = NotRun /\ UNCHANGED <<out, origin, flash, loaded>>

Next == \/ \E hex \in Hexes, file \in Files : Patch(hex, file)
        \/ \E hex \in Firmwares, build \in Builds : Deploy(hex, build)
        \/ \E partial \in BOOLEAN : Flash(partial)
        \/ Boot

Spec == Init /\ [][Next]_vars

-----------------------------------------------------------------------------
TypeOK ==
    /\ exit.code \in WodalBuildResult \cup {"none", "invalid", "too large", "threw"}
    /\ exit.errors # <<>> <=> exit.code = "invalid"
    /\ flash \in [0..FlashSize - 1 -> 0..255] /\ boot[1] \in {"off", "R", "L", "runs"}
    /\ out # NoHex => \A i \in DOMAIN out : out[i].sum \in 0..255

(* A patched hex is one a loader takes, and every byte it places outside   *)
(* the region is the firmware's own (patchFirmwareHex).                    *)
FirmwareIntact ==
    out # NoHex =>
        LET new == Loaded(out)
            old == Bytes(origin.base)
            own == RegionOffset..RegionOffset + RegionSize - 1
        IN  /\ new.sound /\ new.ended /\ DOMAIN new.bytes \ own = DOMAIN old \ own
            /\ \A a \in DOMAIN old \ own : new.bytes[a] = old[a]

(* A device starts the program that was last patched into what it was      *)
(* flashed with, however long the ones before it were and whichever pages  *)
(* were written; one of another profile it refuses (the boot of main.cpp). *)
BootsTheProgram == loaded # <<>> /\ boot # <<"off">> => boot = Read(loaded)

(* A program of another profile reaches a device only as a binary, which   *)
(* the tools do not look into (wodalProgramBytes).                         *)
OthersOnlyAsBinary ==
    out # NoHex /\ Read(origin.program) = <<"L", "profile">> => origin.encoding = "binary"

(* The errors named are the envelope's, in the order of its fields, and    *)
(* each once (insertUnsupportedProfileError).                              *)
FieldAt(name) == CHOOSE i \in DOMAIN Fields : Fields[i] = name
ErrorsInOrder == \A i \in 1..Len(exit.errors) - 1 : FieldAt(exit.errors[i]) < FieldAt(exit.errors[i + 1])
=============================================================================
