------------------------------- MODULE ByteFile -------------------------------
(***************************************************************************)
(* What the file calls promise a program, with no pages or frames: a file  *)
(* is an array of bytes with a size, an open description is a position in  *)
(* a file, a read returns the bytes from the position up to the size, and  *)
(* a write stores its bytes there and moves the size if it ends past it.   *)
(* A write that fails has acknowledged none of its last part, but may have *)
(* stored some of it.  Two things are weaker than a program would like: a  *)
(* write that is not straight changes the sizes and the positions only as  *)
(* it should, but any bytes; and a read of a file whose end would be past  *)
(* 2^64 may stop the machine.                                              *)
(***************************************************************************)
EXTENDS Integers, Sequences

CONSTANTS Files, Descriptions, Modulus

VARIABLES
    content,    \* content[f][pos]: the byte of a file at a position
    size,       \* size[f]
    at,         \* at[d] = <<file, position>>, or <<0, 0>>: not on a file
    io          \* the last call: its kind, the bytes read or to write, for a
                \* read how many were asked for, for a write if it was straight

vars == <<content, size, at, io>>

NoFile == <<0, 0>>
NoTransfer == [op |-> "other", data |-> <<>>]

ByteInit ==
    /\ content = [f \in Files |-> [pos \in DOMAIN content[f] |-> 0]]
    /\ size = [f \in Files |-> 0]
    /\ at = [d \in Descriptions |-> NoFile]
    /\ io = NoTransfer

(* Opening, closing, seeking, and calls on anything but a file.            *)
Move ==
    /\ io' = NoTransfer
    /\ \E d \in Descriptions : at' = [at EXCEPT ![d] = at'[d]]
    /\ UNCHANGED <<content, size>>

(* Truncation hides the bytes: a later write past them brings them back.   *)
Truncate ==
    /\ io' = NoTransfer
    /\ \E f \in Files : size' = [size EXCEPT ![f] = 0]
    /\ \E d \in Descriptions : at' = [at EXCEPT ![d] = at'[d]]
    /\ UNCHANGED content

(* A read returns all the bytes asked for, or all there are.               *)
Read(d) ==
    LET f == at[d][1]
        pos == at[d][2]
        left == IF pos >= size[f] THEN 0 ELSE size[f] - pos
        count == IF left < io'.asked THEN left ELSE io'.asked
    IN  /\ at[d] # NoFile /\ io'.op = "read"
        /\ io' = [op |-> "read", asked |-> io'.asked,
                   data |-> [i \in 1..count |-> content[f][pos + i - 1]]]
        /\ at' = [at EXCEPT ![d][2] = pos + count]
        /\ UNCHANGED <<content, size>>

(* A read that stops the machine.                                          *)
Hang ==
    /\ io'.op = "hung"
    /\ io'.file => \E d \in Descriptions :
                      at[d] # NoFile /\ at[d][2] + io'.asked >= Modulus
    /\ UNCHANGED <<content, size, at>>

(* Of the bytes to write, stored were stored and done acknowledged.        *)
Overwritten(bytes, pos, data, stored) ==
    [p \in DOMAIN bytes |->
        IF p \in pos..(pos + stored - 1) THEN data[p - pos + 1] ELSE bytes[p]]
Write(d, stored, done) ==
    LET f == at[d][1]
        pos == at[d][2]
        data == io'.data
    IN  /\ at[d] # NoFile /\ io'.op = "write"
        /\ io' = [op |-> "write", data |-> data, straight |-> io'.straight]
        /\ done <= stored /\ (done < Len(data) => stored < Len(data))
        /\ at' = [at EXCEPT ![d][2] = pos + done]
        /\ size' = [size EXCEPT ![f] =
                       IF done > 0 /\ pos + done > @ THEN pos + done ELSE @]
        /\ content' = IF io'.straight
                      THEN [content EXCEPT ![f] = Overwritten(@, pos, data, stored)]
                      ELSE [g \in Files |-> [p \in DOMAIN content[g] |-> content'[g][p]]]

(* A write of no bytes past the end extends the file to the position.      *)
WriteNothing(d) ==
    /\ at[d] # NoFile
    /\ io' = [op |-> "write", data |-> <<>>, straight |-> TRUE]
    /\ size' = [size EXCEPT ![at[d][1]] = IF at[d][2] > @ THEN at[d][2] ELSE @]
    /\ UNCHANGED <<content, at>>

ByteNext ==
    \/ Move
    \/ Truncate
    \/ Hang
    \/ \E d \in Descriptions :
          \/ Read(d)
          \/ \E stored, done \in 0..Len(io'.data) : Write(d, stored, done)
          \/ WriteNothing(d)

ByteSpec == ByteInit /\ [][ByteNext]_vars
=============================================================================
