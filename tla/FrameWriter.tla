---------------------------- MODULE FrameWriter ----------------------------
(***************************************************************************)
(* FrameWriter of crates/cv-visualizer: every n-th frame is annotated,     *)
(* written as the next numbered picture and then noted in a log that only  *)
(* grows. Every step on the disk may fail, the process may die between any *)
(* two of them, and the next run numbers its pictures from one again.      *)
(***************************************************************************)
EXTENDS Naturals, Sequences

CONSTANTS SaveEveryN,     \* save_every_n as given, zero included
          MaxDetections,  \* the detections of a frame
          MaxSaves,       \* bounds the calls of save in a run
          MaxRuns         \* bounds the runs

ASSUME WriterAssumption == /\ SaveEveryN \in Nat /\ MaxDetections \in Nat
                           /\ MaxSaves \in Nat /\ MaxRuns \in Nat

VARIABLES at,         \* where save is
          counted,    \* frame_counter
          saved,      \* saved_counter
          drawing,    \* the annotated image: its frame, and the boxes drawn
          pictures,   \* the files of frames/ by number, if they are whole
          log,        \* detections.jsonl, as it is on the disk
          run         \* which run of the process this is

writerVars == <<at, counted, saved, drawing, pictures, log, run>>

Every == IF SaveEveryN = 0 THEN 1 ELSE SaveEveryN
Blank == [frame |-> <<0, 0>>, found |-> 0, drawn |-> 0]
\* A picture is <<its frame, the boxes on it>>; the log a sequence of pieces.
NoPicture == <<>>
LogRecord == <<"record", drawing.frame, drawing.found>>

WriterInit == /\ at = "idle" /\ counted = 0 /\ saved = 0 /\ drawing = Blank
              /\ pictures = [k \in 1 .. MaxSaves |-> NoPicture]
              /\ log = <<>> /\ run = 1

-----------------------------------------------------------------------------
ShouldSave(count) == count % Every = 0

\* The counter moves before it is looked at, and moves on skipped frames too.
Save(found) ==
  /\ at = "idle" /\ counted < MaxSaves
  /\ counted' = counted + 1
  /\ IF ShouldSave(counted')
     THEN /\ at' = "image"
          /\ drawing' = [frame |-> <<run, counted'>>, found |-> found, drawn |-> 0]
     ELSE UNCHANGED <<at, drawing>>
  /\ UNCHANGED <<saved, pictures, log, run>>

\* An error anywhere ends the call; what is on the disk stays there.
FailAt(places) == at \in places /\ at' = "idle" /\ UNCHANGED <<counted, saved, drawing, run>>

\* Not RGB24, or not as many bytes as the size asks for.
NotAnImage == FailAt({"image"}) /\ UNCHANGED <<pictures, log>>
FrameToRgbImage == /\ at = "image" /\ at' = "draw"
                   /\ UNCHANGED <<counted, saved, drawing, pictures, log, run>>

\* One box and its label.
DrawDetection == /\ at = "draw" /\ drawing.drawn < drawing.found
                 /\ drawing' = [drawing EXCEPT !.drawn = @ + 1]
                 /\ UNCHANGED <<at, counted, saved, pictures, log, run>>

EncodeJpeg == /\ at = "draw" /\ drawing.drawn = drawing.found
              /\ at' = "picture"
              /\ UNCHANGED <<counted, saved, drawing, pictures, log, run>>
EncodeFails == FailAt({"draw"}) /\ drawing.drawn = drawing.found
               /\ UNCHANGED <<pictures, log>>

\* The file is emptied first, so an old picture of the number is gone.
CreatePicture == /\ at = "picture" /\ at' = "bytes"
                 /\ pictures' = [pictures EXCEPT ![saved + 1] = NoPicture]
                 /\ UNCHANGED <<counted, saved, drawing, log, run>>

\* Mutant: the picture is counted when its file is made.
WriteFailsCounted == /\ at \in {"picture", "bytes"} /\ at' = "idle"
                     /\ saved' = IF at = "bytes" THEN saved + 1 ELSE saved
                     /\ UNCHANGED <<counted, drawing, pictures, log, run>>

WriteFails == FailAt({"picture", "bytes"}) /\ UNCHANGED <<pictures, log>>

WritePicture == /\ at = "bytes" /\ at' = "open"
                /\ pictures' = [pictures EXCEPT ![saved + 1] = <<drawing.frame, drawing.drawn>>]
                /\ saved' = saved + 1
                /\ UNCHANGED <<counted, drawing, log, run>>

OpenLog == /\ at = "open" /\ at' = "line"
           /\ UNCHANGED <<counted, saved, drawing, pictures, log, run>>

\* The line and its end are two writes; the first may come to a part only.
AppendRecord == /\ at = "line" /\ at' = "newline"
                /\ log' = Append(log, LogRecord)
                /\ UNCHANGED <<counted, saved, drawing, pictures, run>>
AppendNewline == /\ at = "newline" /\ at' = "idle"
                 /\ log' = Append(log, <<"newline">>)
                 /\ UNCHANGED <<counted, saved, drawing, pictures, run>>
AppendFails == /\ FailAt({"open", "line", "newline"})
               /\ log' = log \/ (at = "line" /\ log' = Append(log, <<"part">>))
               /\ UNCHANGED pictures

\* FrameWriter::new after the process died anywhere.
NewRun == /\ run < MaxRuns /\ run' = run + 1
           /\ at' = "idle" /\ counted' = 0 /\ saved' = 0 /\ drawing' = Blank
           /\ UNCHANGED <<pictures, log>>

WriterNext == \/ \E found \in 0 .. MaxDetections : Save(found)
              \/ NotAnImage \/ FrameToRgbImage \/ DrawDetection
              \/ EncodeFails \/ EncodeJpeg
              \/ WriteFails \/ CreatePicture \/ WritePicture
              \/ AppendFails \/ OpenLog \/ AppendRecord \/ AppendNewline
              \/ NewRun

WriterSpec == WriterInit /\ [][WriterNext]_writerVars

-----------------------------------------------------------------------------
IsPicture(k) == pictures[k] # NoPicture /\ pictures[k][1][1] = run

\* Whatever failed and whenever an earlier run died: the numbers this run
\* has counted are whole pictures of its own frames, in order, and each
\* record it got into the log has a picture with all its boxes drawn. (Not
\* so for an earlier run: its records stay, its pictures are overwritten.)
LoggedFramesHavePictures ==
  /\ \A k \in 1 .. saved : IsPicture(k)
  /\ \A j, k \in 1 .. saved : j < k => pictures[j][1][2] < pictures[k][1][2]
  /\ \A i \in DOMAIN log :
       log[i][1] = "record" /\ log[i][2][1] = run =>
         \E k \in 1 .. saved : pictures[k] = <<log[i][2], log[i][3]>>
=============================================================================
