-------------------------------- MODULE File --------------------------------
(***************************************************************************)
(* hxfile, the owner of a C stream: an object opens a stream, or borrows   *)
(* one (hxin, hxout, hxerr), and may be moved.                             *)
(*                                                                         *)
(* The C library is external.  What a stream holds is left out: how much a *)
(* call transfers is a choice, and a short one may be due to the end of    *)
(* the file, which the stream then remembers.  A failed assertion stops    *)
(* the program; the calls below are those that pass theirs.                *)
(***************************************************************************)
EXTENDS Integers, FiniteSets

CONSTANTS
  Object,     \* the hxfile objects of the program
  Stream,     \* the streams of the C library
  Borrowed,   \* those among them that are open all the time, as stdin is
  Null,
  MaxCount    \* bound: the bytes of a read or write

VARIABLES
  file,       \* the fields of each object
  stream      \* external: whether a stream is open, and its end-of-file flag

fileVars == <<file, stream>>

FileAssumption == Borrowed \subseteq Stream /\ Null \notin Stream /\ MaxCount \in Nat

OpenMode == SUBSET {"in", "out", "skip_asserts"}
Fields == [m_file_pimpl_ : Stream \union {Null}, m_open_mode_ : OpenMode,
           m_owns_ : BOOLEAN, m_fail_ : BOOLEAN, m_eof_ : BOOLEAN]

(* A default constructed object: all bytes are zero. *)
Closed == [m_file_pimpl_ |-> Null, m_open_mode_ |-> {},
           m_owns_ |-> FALSE, m_fail_ |-> FALSE, m_eof_ |-> FALSE]

SkipAsserts(o) == "skip_asserts" \in file[o].m_open_mode_
StreamOf(o) == file[o].m_file_pimpl_

FileInit ==
  /\ file = [o \in Object |-> Closed]
  /\ stream = [s \in Stream |-> [open |-> s \in Borrowed, eof |-> FALSE]]

-----------------------------------------------------------------------------
(* fclose on what o owns. *)
Fclose(o) ==
  IF file[o].m_owns_ THEN [stream EXCEPT ![StreamOf(o)] = [open |-> FALSE, eof |-> FALSE]]
  ELSE stream

(* close() and the destructor, which leaves what a constructor will find.  *)
Close(o) ==
  /\ stream' = Fclose(o)
  /\ file' = [file EXCEPT ![o] = Closed]

(* fopen returns a stream that is not in use, or fails if it must. *)
Fopen(o, mode, s) ==
  LET opened == [Closed EXCEPT !.m_open_mode_ = mode,
                               !.m_file_pimpl_ = s,
                               !.m_fail_ = (s = Null),
                               !.m_owns_ = (s # Null)]
      closed == Fclose(o)
  IN /\ IF s = Null THEN "skip_asserts" \in mode /\ stream' = closed
        ELSE /\ ~closed[s].open
             /\ stream' = [closed EXCEPT ![s].open = TRUE]
     /\ file' = [file EXCEPT ![o] = opened]

(* open() closes first; without in and out it only records the mode.  The  *)
(* constructor with a name is the same on a fresh object.                  *)
Open(o, mode) ==
  \/ /\ mode \intersect {"in", "out"} = {}
     /\ stream' = Fclose(o)
     /\ file' = [file EXCEPT ![o] = [Closed EXCEPT !.m_open_mode_ = mode]]
  \/ /\ mode \intersect {"in", "out"} # {}
     /\ \E s \in Stream \union {Null} : Fopen(o, mode, s)

(* hxfile(void*, mode): null makes the object a /dev/null. *)
Borrow(o, s, mode) ==
  /\ file[o] = Closed
  /\ file' = [file EXCEPT ![o] =
                [Closed EXCEPT !.m_file_pimpl_ = s, !.m_open_mode_ = mode]]
  /\ UNCHANGED stream

(* The move constructor overwrites a new object without closing it. *)
MoveConstruct(o, p) ==
  /\ o # p
  /\ file[o] = Closed
  /\ file' = [file EXCEPT ![o] = file[p], ![p] = Closed]
  /\ UNCHANGED stream

(* Mutant of MoveAssign: assignment that does not close o first. *)
MoveAssignLeaks(o, p) ==
  /\ file' = [file EXCEPT ![o] = file[p], ![p] = Closed]
  /\ UNCHANGED stream

(* Assignment closes o first; o = p leaves a closed file. *)
MoveAssign(o, p) ==
  /\ stream' = Fclose(o)
  /\ file' = [file EXCEPT ![o] = file[p], ![p] = Closed]

-----------------------------------------------------------------------------
Readable(o) == "in" \in file[o].m_open_mode_ /\ StreamOf(o) # Null
Writable(o) == "out" \in file[o].m_open_mode_

(* The call o made fell short, at the end of the stream or by an error. *)
FallShort(o, eof) ==
  /\ stream[StreamOf(o)].eof => eof
  /\ stream' = [stream EXCEPT ![StreamOf(o)].eof = eof]
  /\ file' = [file EXCEPT ![o].m_fail_ = TRUE, ![o].m_eof_ = eof]

Read(o, byte_count, buffer_size) ==
  /\ Readable(o)
  /\ \/ /\ byte_count > buffer_size
        /\ SkipAsserts(o)
        /\ file' = [file EXCEPT ![o].m_fail_ = TRUE]
        /\ UNCHANGED stream
     \/ /\ byte_count <= buffer_size
        /\ \E bytes_read \in 0..byte_count :
             IF bytes_read = byte_count THEN UNCHANGED fileVars
             ELSE SkipAsserts(o) /\ \E eof \in BOOLEAN : FallShort(o, eof)

(* A write that succeeds clears the failure, not the end of file. *)
Write(o, byte_count) ==
  /\ Writable(o)
  /\ IF StreamOf(o) = Null THEN UNCHANGED file
     ELSE \E bytes_written \in 0..byte_count :
            /\ bytes_written # byte_count => SkipAsserts(o)
            /\ file' = [file EXCEPT ![o].m_fail_ = bytes_written # byte_count]
  /\ UNCHANGED stream

(* The end of the file is no reason for an assertion here, an error is.  A *)
(* line may end with the file: the stream is at its end, m_eof_ is not set. *)
Getline(o) ==
  /\ Readable(o)
  /\ \/ FallShort(o, TRUE)
     \/ \E eof \in BOOLEAN :
          /\ stream' = [stream EXCEPT ![StreamOf(o)].eof = eof]
          /\ UNCHANGED file

Scan(o) ==
  /\ Readable(o)
  /\ \/ SkipAsserts(o) /\ \E eof \in BOOLEAN : FallShort(o, eof)
     \/ UNCHANGED fileVars

SetPos(o) ==
  /\ StreamOf(o) # Null
  /\ \E failed \in BOOLEAN :
       /\ file' = [file EXCEPT ![o].m_fail_ = failed, ![o].m_eof_ = failed]
       /\ stream' = IF failed THEN stream
                    ELSE [stream EXCEPT ![StreamOf(o)].eof = FALSE]

ClearFlags(o) ==
  /\ file' = [file EXCEPT ![o].m_fail_ = FALSE, ![o].m_eof_ = FALSE]
  /\ stream' = IF StreamOf(o) = Null THEN stream
               ELSE [stream EXCEPT ![StreamOf(o)].eof = FALSE]

SetFail(o) ==
  /\ file' = [file EXCEPT ![o].m_fail_ = TRUE]
  /\ UNCHANGED stream

FileNext ==
  \E o \in Object :
    \/ Close(o)
    \/ \E mode \in OpenMode : Open(o, mode)
    \/ \E s \in Borrowed \union {Null}, mode \in OpenMode : Borrow(o, s, mode)
    \/ \E p \in Object : MoveConstruct(o, p) \/ MoveAssign(o, p)
    \/ \E count, size \in 0..MaxCount : Read(o, count, size)
    \/ \E count \in 0..MaxCount : Write(o, count)
    \/ Getline(o)
    \/ Scan(o)
    \/ SetPos(o)
    \/ ClearFlags(o)
    \/ SetFail(o)

-----------------------------------------------------------------------------
(* The values every variable may take. *)
FileTypeOK ==
  /\ file \in [Object -> Fields]
  /\ stream \in [Stream -> [open : BOOLEAN, eof : BOOLEAN]]

(* A stream that was opened is open as long as one object owns it, and is  *)
(* never closed twice, leaked or used by an object after it was closed; a  *)
(* borrowed stream is closed by no one.                                    *)
StreamsHaveOneOwner ==
  /\ \A s \in Stream \ Borrowed :
       LET holders == {o \in Object : StreamOf(o) = s}
       IN /\ Cardinality(holders) = IF stream[s].open THEN 1 ELSE 0
          /\ \A o \in holders : file[o].m_owns_
  /\ \A s \in Borrowed :
       /\ stream[s].open
       /\ \A o \in Object : StreamOf(o) = s => ~file[o].m_owns_

=============================================================================
