----------------------------- MODULE MCConsole -----------------------------
EXTENDS Console

\* A user who plays with all the keys that are held, and users who write with
\* one of them, with the special keys and with the controls of letters.
MCKeyboards ==
  {{"left shift", "right shift", "ctrl", "right ctrl", "arrow"},
   {"right shift", "l"},
   {"arrow", "esc"},
   {"right ctrl", "j", "enter"},
   {"ctrl", "l"},
   {"ctrl", "m", "backspace"},
   {"ctrl", "h"},
   {"ctrl", "i"}}
=============================================================================
