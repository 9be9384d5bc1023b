CONSTANTS
  n1 = n1
  n2 = n2
  p1 = p1
  none = none
  Workers = {w1, w2}
  Names = {n1, n2}
  Passwords = {p1, none}
  Empty = none
  Posted <- MCPosted
  Nothing = nothing
  NoOne = noone
  MaxRestarts = 1
SPECIFICATION Spec
INVARIANTS  GrantedOnce
PROPERTIES GrantedWelcome PasswordKept Answered
