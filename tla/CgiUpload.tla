------------------------------- MODULE CgiUpload -------------------------------
(* src/cgihandler/upload_session.py: an UpLoadSessionBase object saves files,   *)
(* and takes them away again when one of them failed.                           *)
(*                                                                              *)
(* fs.dirs are the directories (a path is the sequence of its names) and        *)
(* fs.files the files (a path ending in the file's name).  The file system is   *)
(* external: every call of it may fail, opening a file for writing empties it.  *)
(* What the browser sent may lack a name or a body, or have one of another type.*)
EXTENDS Integers, Sequences

CONSTANT None

(* the object: _session_result, _path_list, _saved_filelist *)
NewUpload == [ok |-> TRUE, paths |-> <<>>, saved |-> <<>>]

Part(path, k) == {SubSeq(path, 1, n) : n \in 1..k}
Inside(fs, path) == {q \in fs.dirs \union fs.files : Len(q) > Len(path) /\ SubSeq(q, 1, Len(path)) = path}

Saved(fs, u) == [fs |-> fs, up |-> u, err |-> None]
failed_session(fs, u, throw) ==
  [fs |-> fs, up |-> [u EXCEPT !.ok = FALSE], err |-> IF throw THEN "SessionUpload" ELSE None]
NotCaught(fs, u) == [fs |-> fs, up |-> u, err |-> "other"]

(* makedirs, then the name, then the file: opened, written, closed.  A missing  *)
(* name is a KeyError, and a wrong name or body an AttributeError or TypeError  *)
(* of the third part, where only IOErrors are caught.                           *)
safe_save(fs, u, path, name, throw) ==
  LET made == [fs EXCEPT !.dirs = @ \union Part(path, Len(path))]
      u2 == IF path \in fs.dirs THEN u ELSE [u EXCEPT !.paths = Append(@, path)]
      file == Append(path, name)
      written == [made EXCEPT !.files = @ \union {file}]
      u3 == [u2 EXCEPT !.saved = Append(@, file)]
  IN  (IF path \in fs.dirs THEN {}
       ELSE {failed_session([fs EXCEPT !.dirs = @ \union Part(path, k)], u, throw) : k \in 0..(Len(path) - 1)})
      \union
      {failed_session(made, u2, throw),      \* no name to be had, or not opened
       failed_session(written, u2, throw),   \* not written
       failed_session(written, u3, throw),   \* not closed
       NotCaught(made, u2),                  \* no name, or one that is no string
       NotCaught(written, u2),               \* no body, or one that is no string
       Saved(written, u3)}

-------------------------------------------------------------------------------
(* __del__ goes through both lists; what cannot be removed ends it: it is not   *)
(* there, a directory is not empty, or the system refuses.  The removal of      *)
(* number at, if it comes to that, is refused.                                  *)
RemoveFile(f, file, refused) ==
  IF f.ok /\ file \in f.fs.files /\ ~refused THEN [f EXCEPT !.fs.files = @ \ {file}] ELSE [f EXCEPT !.ok = FALSE]
RemoveDir(f, path, refused) ==
  IF f.ok /\ path \in f.fs.dirs /\ Inside(f.fs, path) = {} /\ ~refused
  THEN [f EXCEPT !.fs.dirs = @ \ {path}] ELSE [f EXCEPT !.ok = FALSE]

RemoveFiles(f, files, at) ==
  LET after[n \in 0..Len(files)] == IF n = 0 THEN f ELSE RemoveFile(after[n - 1], files[n], n = at)
  IN  after[Len(files)]
RemoveDirs(f, paths, at) ==
  LET after[n \in 0..Len(paths)] == IF n = 0 THEN f ELSE RemoveDir(after[n - 1], paths[n], n = at)
  IN  after[Len(paths)]

Removals(u) == 0..(Len(u.saved) + Len(u.paths))  \* 0: none is refused

(* Mutant: the directories first.                                               *)
Deleted_DirsFirst(fs, u, at) ==
  IF u.ok THEN fs
  ELSE RemoveFiles(RemoveDirs([fs |-> fs, ok |-> TRUE], u.paths, at - Len(u.saved)), u.saved, at).fs

Deleted(fs, u, at) ==
  IF u.ok THEN fs
  ELSE RemoveDirs(RemoveFiles([fs |-> fs, ok |-> TRUE], u.saved, at), u.paths, at - Len(u.saved)).fs
===============================================================================
