--------------------------- MODULE MCHttpRequest ---------------------------
(* A model of HttpRequest with separators and paths of a few characters and*)
(* messages of one byte: two digits.                                       *)
EXTENDS HttpRequest

MCGet == <<71, 32>>           \* "G "
MCPost == <<80, 32>>          \* "P "
MCVer == <<32, 86, 13, 10>>   \* " V\r\n"
MCBreak == <<13, 10, 13, 10>>

MCSend == <<47, 115>>              \* "/s"
MCPaths == {<<47>>, MCSend}        \* and "/"
MCUrls == MCPaths \union {<<47, 115, 47>>}
MCMethods == {MCGet, MCPost, <<88, 32>>}
MCHeaders == {<< >>, <<104>>}

\* Digits from both ends of each range, characters next to them, and lengths
\* next to the right one.
MCBodies ==
  {<< >>, <<57>>, <<48, 102>>, <<97, 57>>, <<70, 65>>, <<48, 103>>, <<71, 48>>,
   <<47, 48>>, <<48, 58>>, <<64, 97>>, <<96, 97>>, <<48, 48, 48>>}
=============================================================================
