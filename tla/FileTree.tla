------------------------------ MODULE FileTree ------------------------------
(***************************************************************************)
(* FileSystem::fileTreeTraversal() (src/file_system.cc): each entry of a   *)
(* directory is given to a callback under its path, which is put together  *)
(* in one buffer again and again.  Entries come in any order, and some may *)
(* be removed before they are looked at.                                   *)
(***************************************************************************)
EXTENDS CString

CONSTANTS
  Folders,   \* dir_path
  Entries,   \* the names in the directory, "." and ".." among them
  EntrySize  \* sizeof(entry_path)

\* opendir() refuses a path of PATH_MAX bytes with its terminator, which is EntrySize.
ASSUME FileTreeAssumption ==
  /\ EntrySize \in Nat
  /\ \A d \in Folders : d \in Seq(STRING \ { NUL }) /\ Len(d) < EntrySize
  /\ \A e \in Entries : e \in Seq(STRING \ { NUL })

VARIABLES
  where,       \* "call", "read", "look", "end", "back" or "outside"
  dir_path,
  stream,      \* whether the directory is open
  unread,      \* the entries that readdir_r() has yet to return
  entry,       \* the one it returned last
  there,       \* the entries that exist
  entry_path, used,
  rc,
  visited,     \* history: the entries the callback was called for, and with which path
  cutShort     \* history: whether readdir_r() failed

treeVars == << where, dir_path, stream, unread, entry, there, entry_path, used, rc,
               visited, cutShort >>

Dots == { << "." >>, << ".", "." >> }
Slash(d) == IF endsWith(d, << "/" >>) THEN d ELSE Append(d, "/")

TreeInit ==
  /\ where = "call" /\ dir_path \in Folders /\ stream = FALSE
  /\ unread = Entries /\ entry = << >> /\ there = Entries
  /\ entry_path = [k \in 1 .. EntrySize |-> NUL] /\ used = 0
  /\ rc = 0 /\ visited = {} /\ cutShort = FALSE

\* Up to the loop: opendir() may fail.
opendir ==
  /\ where = "call"
  /\ \/ /\ rc' = -1 /\ where' = "back" /\ UNCHANGED << stream, entry_path, used >>
     \/ /\ stream' = TRUE /\ where' = "read" /\ UNCHANGED rc
        /\ LET copy == strlcpy(entry_path, dir_path, EntrySize)
               full == IF endsWith(Text(copy.buf), << "/" >>) THEN copy
                       ELSE strlcat(copy.buf, << "/" >>, EntrySize)
           IN  entry_path' = full.buf /\ used' = full.ret
  /\ UNCHANGED << dir_path, unread, entry, there, visited, cutShort >>

\* readdir_r() returns the next entry, or nothing: at the end or for an error.
readdir ==
  /\ where = "read"
  /\ \/ /\ unread = {} /\ where' = "end" /\ UNCHANGED << unread, entry, cutShort >>
     \/ /\ where' = "end" /\ cutShort' = TRUE /\ UNCHANGED << unread, entry >>
     \/ \E e \in unread :
          /\ entry' = e /\ unread' = unread \ { e } /\ UNCHANGED cutShort
          /\ where' = IF e \in Dots THEN "read" ELSE "look"
  /\ UNCHANGED << dir_path, stream, there, entry_path, used, rc, visited >>

\* Mutant: the name is appended to the last entry's path.
PathOfGrown(buf, n, e) == strlcat(buf, e, EntrySize).buf

\* The path of an entry in the buffer, behind its first n characters.
PathOf(buf, n, e) == strlcat([buf EXCEPT ![n + 1] = NUL], e, EntrySize).buf

\* strlcat() returned what it would have liked to write, and entry_path[used] is no byte of
\* the buffer.
lookOutside ==
  /\ where = "look" /\ used >= EntrySize /\ where' = "outside"
  /\ UNCHANGED << dir_path, stream, unread, entry, there, entry_path, used, rc, visited,
                  cutShort >>

\* lstat() of what the buffer holds, which may be the folder itself, and the callback, which
\* may ask to stop.
lookAt ==
  LET buf   == PathOf(entry_path, used, entry)
      found == \E e \in there \cup { << >> } : Slash(dir_path) \o e = Text(buf)
  IN
  /\ where = "look" /\ used < EntrySize /\ entry_path' = buf
  /\ IF found
     THEN /\ visited' = visited \cup { [entry |-> entry, path |-> Text(buf)] }
          /\ rc' \in { 0, 1 }
     ELSE rc' = -1 /\ UNCHANGED visited
  /\ where' = IF rc' = 0 THEN "read" ELSE "end"
  /\ UNCHANGED << dir_path, stream, unread, entry, there, used, cutShort >>

closedir ==
  /\ where = "end" /\ where' = "back" /\ stream' = FALSE
  /\ UNCHANGED << dir_path, unread, entry, there, entry_path, used, rc, visited, cutShort >>

\* Somebody removes a file.
remove ==
  /\ where \in { "read", "look" }
  /\ \E e \in there \ Dots : there' = there \ { e }
  /\ UNCHANGED << where, dir_path, stream, unread, entry, entry_path, used, rc, visited,
                  cutShort >>

TreeNext == opendir \/ readdir \/ lookOutside \/ lookAt \/ closedir \/ remove

-----------------------------------------------------------------------------
(* Properties. *)

Fits(e) == Len(Slash(dir_path)) + Len(e) < EntrySize

\* The callback is given each entry under the path of that entry, if the path fits the
\* buffer, and never "." or ".."; and when it and lstat() have found no fault and the
\* directory could be read, it was given every entry (file_system.cc:50).  The buffer is left
\* for one path only: the longest that opendir() takes, without a separator at its end.
EntriesVisited ==
  /\ \A v \in visited :
       v.entry \notin Dots /\ (Fits(v.entry) => v.path = Slash(dir_path) \o v.entry)
  /\ where = "back" /\ rc = 0 /\ ~cutShort =>
       { v.entry : v \in visited } = Entries \ Dots
  /\ where = "outside" => Len(dir_path) = EntrySize - 1 /\ ~endsWith(dir_path, << "/" >>)

\* The directory is closed again, however the traversal ends.
StreamClosed == where \in { "call", "back" } => ~stream
=============================================================================
