------------------------------ MODULE MCFilter ------------------------------
EXTENDS Descent, TLC

\* "", "a", "A", "a%", "%", "\_", "1", "[]", and an "a" behind a NUL
MCTexts ==
  {<<>>, <<97>>, <<65>>, <<97, 37>>, <<37>>, <<92, 95>>, <<49>>, <<91, 93>>, <<0, 97>>}

(***************************************************************************)
(* Numerals that stand for what the kinds of numbers have of their own.    *)
(* Their values keep the order, and their texts are abbreviated:           *)
(*   "1.0"  is 1 with a fraction, which to_string() leaves out             *)
(*   "0.1"  is read one f64 away by SQLite                                 *)
(*   "1e16" has three spellings: 1e16, 1 and 16 zeros, 1.0e+16             *)
(*   "2^53" and "2^53+1" share an f64, "2^64-1" is past i64::MAX           *)
(***************************************************************************)
MCInts == {"-1", "0", "1", "2^53", "2^53+1", "2^64-1"}
MCBig == {"2^64-1"}
MCNonFinite == {"inf", "-inf", "NaN"}
MCNumerals == MCInts \cup MCNonFinite \cup {"0.1", "1.0", "1e16"}

MCValue ==
  "-1" :> -10 @@ "0" :> 0 @@ "0.1" :> 1 @@ "1" :> 10 @@ "1.0" :> 10 @@
  "2^53" :> 20 @@ "2^53+1" :> 21 @@ "1e16" :> 30 @@ "2^64-1" :> 41 @@
  "inf" :> 50 @@ "-inf" :> -50 @@ "NaN" :> 0
MCRead == "0.1" :> 2 @@ "2^64-1" :> 42 @@ MCValue
MCValues == {MCValue[n] : n \in MCNumerals} \cup {MCRead[n] : n \in MCNumerals}
MCDouble == 21 :> 20 @@ 41 :> 42 @@ [x \in MCValues |-> x]

MCSerde ==
  "-1" :> <<45, 49>> @@ "0" :> <<48>> @@ "0.1" :> <<46, 49>> @@
  "1" :> <<49>> @@ "1.0" :> <<49, 46, 48>> @@
  "2^53" :> <<50>> @@ "2^53+1" :> <<51>> @@ "1e16" :> <<49, 101>> @@ "2^64-1" :> <<52>> @@
  "inf" :> <<>> @@ "-inf" :> <<>> @@ "NaN" :> <<>>
MCDisplay ==
  "1.0" :> <<49>> @@ "1e16" :> <<49, 48>> @@
  "inf" :> <<105>> @@ "-inf" :> <<45, 105>> @@ "NaN" :> <<78>> @@ MCSerde
MCSqlite ==
  "1e16" :> <<49, 46, 48, 101>> @@ "2^64-1" :> <<52, 101>> @@
  "inf" :> <<73>> @@ "-inf" :> <<45, 73>> @@ MCSerde
=============================================================================
