--------------------------- MODULE StringEncoding ---------------------------
(***************************************************************************)
(* src/src/common/string-encoding.{h,cpp}: conversion of a tag to UTF-8.   *)
(* ICU and g_convert are external: a text is what they answer about it,    *)
(* and a converted text is named by the encoding it was decoded from.      *)
(***************************************************************************)
EXTENDS Naturals

CONSTANT Encodings   (* the names that ICU and g_convert know *)

NoGuess == "no guess"
Raw == "raw copy"

(* The table for one country, in order of priority. *)
AllowedEncodingsSize == 9
AllowedEncodings ==
  <<"GB18030", "Big5", "UTF-8", "UTF-16", "UTF-16BE", "UTF-16LE", "UTF-32",
    "UTF-32BE", "UTF-32LE">>

ASSUME EncodingsAssumption ==
  /\ Raw \notin Encodings /\ NoGuess \notin Encodings
  /\ \A i \in 1..AllowedEncodingsSize : AllowedEncodings[i] \in Encodings

(* What ucsdet_detect guesses, and what g_convert can decode it from. *)
Text == [guess : Encodings \cup {NoGuess}, confidence : 0..100,
         converts : SUBSET Encodings]

(* Without a match the confidence is left unset, and is not looked at. *)
Trusted(text) == text.guess # NoGuess /\ text.confidence > 50

CanConvert(text, encoding) == encoding \in text.converts

(* The positions in the table at which convert_to_encoding would succeed. *)
Usable(text) ==
  {i \in 1..AllowedEncodingsSize : CanConvert(text, AllowedEncodings[i])}

(* Mutant of ConvertCStringToUTF8: the guess is not tested for NULL. *)
ConvertWithoutTest(text) ==
  IF Trusted(text) THEN
     IF CanConvert(text, text.guess) THEN text.guess ELSE NoGuess
  ELSE IF Usable(text) # {} THEN "GB18030"
  ELSE Raw

(* Mutant of ConvertCStringToUTF8: the loop returns what it tried first. *)
ConvertWithFirst(text) ==
  IF Trusted(text) THEN
     IF CanConvert(text, text.guess) THEN text.guess ELSE Raw
  ELSE IF CanConvert(text, AllowedEncodings[1]) THEN AllowedEncodings[1]
  ELSE Raw

(***************************************************************************)
(* A trusted guess is tried alone: when it does not convert, the table is  *)
(* not tried, and the text is copied as it is.                             *)
(***************************************************************************)
ConvertCStringToUTF8(text) ==
  IF Trusted(text) THEN
     IF CanConvert(text, text.guess) THEN text.guess ELSE Raw
  ELSE IF Usable(text) # {} THEN
     AllowedEncodings[CHOOSE i \in Usable(text) : \A j \in Usable(text) : i <= j]
  ELSE Raw

(***************************************************************************)
(* Which encoding a text is decoded from, if it is decoded: one it can be  *)
(* decoded from, and that is the guess if it is trusted and works, and     *)
(* without a trusted guess no later entry of the table than the first that *)
(* works.                                                                  *)
(***************************************************************************)
InOrder(text, result) ==
  /\ result # Raw => CanConvert(text, result)
  /\ Trusted(text) /\ CanConvert(text, text.guess) => result = text.guess
  /\ ~Trusted(text) =>
       \A i \in 1..AllowedEncodingsSize :
         CanConvert(text, AllowedEncodings[i]) =>
           \E j \in 1..i : result = AllowedEncodings[j]

=============================================================================
