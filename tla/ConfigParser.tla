---------------------------- MODULE ConfigParser ----------------------------
(***************************************************************************)
(* The UI theme file: config_parser_init() and config_parser_get() of      *)
(* src/libcutils/config_parser.c, driven by tboot_ui_load_config() of      *)
(* src/src/tboot_ui.c, its only caller.                                    *)
(*                                                                         *)
(* The file is read into a buffer of exactly st_size bytes that nothing    *)
(* NUL-terminates; every scan of it (strchr, strlen, strdup) runs on to    *)
(* the first NUL, wherever that is.  So memory is modelled as the buffer   *)
(* followed by the heap bytes after it: `mem` is file \o heap, where heap  *)
(* ends in a NUL, and `alen` is the size of the allocation.  Which heap    *)
(* bytes follow the buffer is not up to the program: heap is chosen from   *)
(* the constant Heap.                                                      *)
(*                                                                         *)
(* Characters are strings: a small alphabet of key and value characters,  *)
(* the delimiter "=", the comment sign "#", and NL and NUL.  The keys are  *)
(* looked up in the order of tboot_ui_load_config(); two keys stand for    *)
(* the cascade there: a general one (window_color) and a per-window one    *)
(* (infowin_color) that falls back on it.                                  *)
(***************************************************************************)
EXTENDS Integers, Sequences, SequencesExt

CONSTANTS
  Files,     \* contents the theme file may have; <<>> is an empty file
  Heap,      \* byte sequences that may follow the buffer, each ending in NUL
  KeyOrder,  \* <<WINDOW_COLOR_KEY, INFOWIN_COLOR_KEY>>
  Digits,    \* characters strtol() takes as digits
  DefColor   \* WINDOW_DEF_COLOR

NL == "NL"
NUL == "NUL"
NULL == <<"NULL">>   \* config_parser_get() returned NULL

(* The default delimiters "= \t" of config_parser_init(); space and tab    *)
(* behave like "=" and are left out of the alphabet.                       *)
Delims == {"="}

ASSUME \A h \in Heap : h # <<>> /\ Last(h) = NUL

VARIABLES
  pc,        \* "open", "strip", "get", "assign", "done"
  mem,       \* cp->data and the bytes after it
  alen,      \* cp->len: bytes read, the size of the allocation
  file,      \* history: the file's contents
  heap,      \* history: the heap bytes that followed the buffer
  dst,       \* the comment-removal cursor dst
  k,         \* which key of KeyOrder is being looked up
  line,      \* config_parser_get()'s line pointer, an index into mem
  value,     \* what config_parser_get() returned for each key so far
  read,      \* history: the furthest byte of mem any scan has read
  written,   \* history: the furthest byte of mem any store has written
  uninitFree,\* history: config_parser_free() was given the uninitialised cp
  result,    \* tboot_ui_load_config()'s return value
  window,    \* window_color
  infowin    \* infowin_color

vars == <<pc, mem, alen, file, heap, dst, k, line, value, read, written,
          uninitFree, result, window, infowin>>

-----------------------------------------------------------------------------
(* Helpers.                                                                *)

(* strchr(p, c): the first byte at or after i that is c, or the NUL that   *)
(* ends the string; the heap always holds a NUL, so a scan always ends.    *)
Strchr(m, i, S) == SelectInSubSeq(m, i, Len(m), LAMBDA c : c \in S \cup {NUL})

Furthest(a, b) == IF a >= b THEN a ELSE b
Smaller(a, b) == IF a <= b THEN a ELSE b

(* strtok(): the tokens of s, runs of non-delimiters.                      *)
RECURSIVE Tokens(_)
Tokens(s) ==
  IF s = <<>> THEN <<>>
  ELSE IF Head(s) \in Delims THEN Tokens(Tail(s))
  ELSE LET e == SelectInSeq(s, LAMBDA c : c \in Delims)
       IN  IF e = 0 THEN <<s>>
           ELSE <<SubSeq(s, 1, e - 1)>> \o Tokens(SubSeq(s, e, Len(s)))

(* strtol(value, NULL, 0): the number the leading digits spell; with one   *)
(* digit character a number is its count of digits.                        *)
StrToL(s) ==
  LET e == SelectInSeq(s, LAMBDA c : c \notin Digits)
  IN  IF e = 0 THEN Len(s) ELSE e - 1

-----------------------------------------------------------------------------
(* The reference: the file format of the header comment of                 *)
(* config_parser.c: "comments start with #", "key<delimeters>value".  The  *)
(* value of a key is the second token of the first line, comments cut,     *)
(* whose first token is the key; NULL when there is none.                  *)

RECURSIVE Lines(_)
Lines(f) ==
  LET e == SelectInSeq(f, LAMBDA c : c = NL)
  IN  IF e = 0 THEN <<f>>
      ELSE <<SubSeq(f, 1, e - 1)>> \o Lines(SubSeq(f, e + 1, Len(f)))

Uncommented(l) ==
  LET h == SelectInSeq(l, LAMBDA c : c = "#")
  IN  IF h = 0 THEN l ELSE SubSeq(l, 1, h - 1)

Lookup(f, key) ==
  LET toks == [n \in DOMAIN Lines(f) |-> Tokens(Uncommented(Lines(f)[n]))]
      hits == {n \in DOMAIN toks : toks[n] # <<>> /\ toks[n][1] = key}
  IN  IF hits = {} THEN NULL
      ELSE LET t == toks[Min(hits)]
           IN  IF Len(t) >= 2 THEN t[2] ELSE NULL

-----------------------------------------------------------------------------
(* tboot_ui_load_config() runs once, from tboot_ui_init(), with the static *)
(* cp still NULL, so its "same file already loaded" early return is never  *)
(* taken.                                                                  *)

Init ==
  /\ pc = "open"
  /\ mem = <<NUL>> /\ alen = 0 /\ file = <<>> /\ heap = <<NUL>>
  /\ dst = 1 /\ k = 1 /\ line = 1 /\ value = <<>>
  /\ read = 0 /\ written = 0 /\ uninitFree = FALSE
  /\ result = 0 /\ window = 0 /\ infowin = 0

(* config_parser_init(fn).  open(), malloc() or read() may fail: the       *)
(* parser returns NULL and the load -1.  fstat() failing or st_size <= 0   *)
(* jumps to err before cp is assigned, so config_parser_free() is given    *)
(* the uninitialised local cp.  Otherwise st_size bytes are read into a    *)
(* buffer of st_size bytes and comment removal starts at the front.        *)
Open ==
  /\ pc = "open"
  /\ \E f \in Files, h \in Heap :
       /\ file' = f /\ heap' = h
       /\ \/ /\ result' = -1 /\ pc' = "done"
             /\ UNCHANGED <<mem, alen, uninitFree>>
          \/ /\ uninitFree' = TRUE
             /\ result' = -1 /\ pc' = "done"
             /\ UNCHANGED <<mem, alen>>
          \/ /\ f # <<>>
             /\ mem' = f \o h /\ alen' = Len(f)
             /\ pc' = "strip"
             /\ UNCHANGED <<uninitFree, result>>
       /\ f = <<>> => uninitFree'
  /\ UNCHANGED <<dst, k, line, value, read, written, window, infowin>>

(* One pass of the comment-removal loop: dst = strchr(dst, '#'); none      *)
(* ends the loop.  src = strchr(dst, '\n'); none cuts the data at the '#'. *)
(* Otherwise memmove(dst, src, MIN(strlen(src) + 1, cp->len)) moves the    *)
(* rest of the data, from the newline on, over the comment.                *)
StripComment ==
  /\ pc = "strip"
  /\ LET d == Strchr(mem, dst, {"#"})
         s == Strchr(mem, d, {NL})
         z == Strchr(mem, s, {})
         n == Smaller(z - s + 1, alen)
     IN  IF mem[d] = NUL
         THEN /\ read' = Furthest(read, d)
              /\ pc' = "get"
              /\ UNCHANGED <<mem, dst, written>>
         ELSE IF mem[s] = NUL
         THEN /\ read' = Furthest(read, s)
              /\ mem' = [mem EXCEPT ![d] = NUL]
              /\ written' = Furthest(written, d)
              /\ pc' = "get"
              /\ UNCHANGED dst
         ELSE /\ read' = Furthest(read, z)
              /\ mem' = [j \in DOMAIN mem |->
                           IF d <= j /\ j < d + n THEN mem[s + j - d]
                                                  ELSE mem[j]]
              /\ written' = Furthest(written, d + n - 1)
              /\ dst' = d
              /\ UNCHANGED pc
  /\ UNCHANGED <<alen, file, heap, k, line, value, uninitFree, result,
                 window, infowin>>

(* config_parser_get() returned v for the current key: the next key of     *)
(* tboot_ui_load_config() starts again at the front of the data.           *)
Returns(v) ==
  /\ value' = Append(value, v)
  /\ line' = 1
  /\ IF k = Len(KeyOrder) THEN pc' = "assign" /\ UNCHANGED k
                          ELSE k' = k + 1 /\ UNCHANGED pc

(* Mutant: strncmp() over the shorter length, a prefix match.             *)
KeyMatchesShorter(tok, key) == IsPrefix(tok, key) \/ IsPrefix(key, tok)

(* strncmp(tok1, key, MAX(strlen(tok1), strlen(key))): an exact match.     *)
KeyMatches(tok, key) == tok = key

(* Mutant: the loop goes on to the next line without "if (!end) break".   *)
NextLineUnchecked(e) == line' = e + 1 /\ UNCHANGED <<pc, k, value>>

(* No newline ends the line: the string is over and the key not found.    *)
NextLine(e) ==
  IF mem[e] = NUL THEN Returns(NULL)
                  ELSE line' = e + 1 /\ UNCHANGED <<pc, k, value>>

(* One pass of config_parser_get()'s line loop: end = strchr(line, '\n'),  *)
(* cut there for the moment, take the first token of strdup(line); if it  *)
(* is the key, restore the newline and return the second token (NULL if   *)
(* there is none).  Otherwise restore, and stop at the end of the string   *)
(* or go on with the next line.                                            *)
GetLine ==
  /\ pc = "get"
  /\ LET e    == Strchr(mem, line, {NL})
         toks == Tokens(SubSeq(mem, line, e - 1))
     IN  /\ read' = Furthest(read, e)
         /\ IF toks # <<>> /\ KeyMatches(toks[1], KeyOrder[k])
            THEN Returns(IF Len(toks) >= 2 THEN toks[2] ELSE NULL)
            ELSE NextLine(e)
  /\ UNCHANGED <<mem, alen, file, heap, dst, written, uninitFree, result,
                 window, infowin>>

(* The configured values: window_color from its key or WINDOW_DEF_COLOR;   *)
(* every per-window colour starts as window_color and is overridden by its *)
(* own key when that is set.  The font heights, separators, bar height,   *)
(* font and background follow the same two patterns.                       *)
Assign ==
  /\ pc = "assign"
  /\ LET w == IF value[1] = NULL THEN DefColor ELSE StrToL(value[1])
     IN  /\ window' = w
         /\ infowin' = IF value[2] = NULL THEN w ELSE StrToL(value[2])
  /\ result' = 0 /\ pc' = "done"
  /\ UNCHANGED <<mem, alen, file, heap, dst, k, line, value, read, written,
                 uninitFree>>

(* tboot_ui_load_config() has returned to tboot_ui_init().                 *)
Loaded == pc = "done" /\ UNCHANGED vars

Next == Open \/ StripComment \/ GetLine \/ Assign \/ Loaded

Spec == Init /\ [][Next]_vars

-----------------------------------------------------------------------------
(* Properties.                                                             *)

Chars == UNION {ToSet(f) : f \in Files} \cup UNION {ToSet(h) : h \in Heap}
         \cup {NL, NUL}

TypeOK ==
  /\ pc \in {"open", "strip", "get", "assign", "done"}
  /\ mem \in Seq(Chars) /\ alen \in Nat
  /\ file \in Files \cup {<<>>} /\ heap \in Heap \cup {<<NUL>>}
  /\ dst \in 1 .. Len(mem) /\ line \in 1 .. Len(mem)
  /\ k \in 1 .. Len(KeyOrder)
  /\ value \in Seq(Seq(Chars) \cup {NULL}) /\ Len(value) <= Len(KeyOrder)
  /\ read \in 0 .. Len(mem) /\ written \in 0 .. Len(mem)
  /\ uninitFree \in BOOLEAN /\ result \in {0, -1}
  /\ window \in Nat /\ infowin \in Nat

(* The colours tboot_ui_load_config() gives the UI are what the theme      *)
(* file's "key=value" lines say (the format of the header comment of       *)
(* config_parser.c), with infowin_color falling back on window_color and   *)
(* that on WINDOW_DEF_COLOR, whenever the byte after the file's buffer     *)
(* happens to be NUL.  This is about the in-place comment removal (the     *)
(* memmove and its length), the in-place cutting and restoring of lines    *)
(* and the key comparison of config_parser_get().                          *)
ThemeFollowsFile ==
  (pc = "done" /\ result = 0 /\ heap[1] = NUL) =>
    LET v(n) == Lookup(file, KeyOrder[n])
        w    == IF v(1) = NULL THEN DefColor ELSE StrToL(v(1))
    IN  /\ \A n \in 1 .. Len(KeyOrder) : value[n] = v(n)
        /\ window = w
        /\ infowin = IF v(2) = NULL THEN w ELSE StrToL(v(2))

(* The same without the lucky NUL: every value comes from the file.        *)
ValueFromFile ==
  (pc = "done" /\ result = 0) =>
    \A n \in 1 .. Len(KeyOrder) : value[n] = Lookup(file, KeyOrder[n])

(* Comment removal writes only inside the buffer it was given.            *)
WritesInsideBuffer == written <= alen

(* Reads stay inside the buffer and the NUL that should follow it.        *)
ReadsInsideBuffer == read <= alen + 1

(* config_parser_init() never frees a pointer it has not set.             *)
NoUninitialisedFree == ~uninitFree

=============================================================================
