---------------------------- MODULE MCExtraction ----------------------------
(* Small instances of Extraction for TLC. *)
EXTENDS Extraction, TLC

Known == {AllowedEncodings[i] : i \in 1..AllowedEncodingsSize} \cup {"windows-1252"}

Latin1(guess, confidence, converts) ==
  [latin1 |-> TRUE,
   text |-> [guess |-> guess, confidence |-> confidence, converts |-> converts]]

Unicode == [Latin1(NoGuess, 0, {}) EXCEPT !.latin1 = FALSE]

(* The cases of the conversion: a trusted guess, one that does not convert, *)
(* one that is not trusted by one percent, no guess, and no conversion.     *)
Certain == Latin1("windows-1252", 80, {"windows-1252", "GB18030"})
Wrong == Latin1("windows-1252", 51, {"GB18030"})
Unsure == Latin1("windows-1252", 50, {"windows-1252", "Big5", "UTF-16"})
Binary == Latin1(NoGuess, 0, {})

Paths == {"one.mp3", "two.OGG", "three.txt"}
Suffixes ==
  [p \in Paths |-> CASE p = "one.mp3" -> "mp3" [] p = "two.OGG" -> "OGG"
                     [] p = "three.txt" -> "txt"]
UpperCase ==
  [s \in {"mp3", "OGG", "txt"} |->
     CASE s = "mp3" -> "MP3" [] s = "OGG" -> "OGG" [] s = "txt" -> "TXT"]

TagsOf ==
  [p \in Paths |->
     IF p = "one.mp3"
     THEN [title |-> Certain, artist |-> Unsure, album |-> Wrong,
           composer |-> Certain, genre |-> Binary]
     ELSE [title |-> Unicode, artist |-> Certain, album |-> Unsure,
           composer |-> Certain, genre |-> Unicode]]

=============================================================================
