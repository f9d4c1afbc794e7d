--------------------------- MODULE MCCachingRemote ---------------------------
(* Four identities, two of them folders, two names; see README, section 3.  *)
EXTENDS CachingRemote

MCNames == {<<"a">>, <<"b">>}

\* Files and folders called b at the top are outside the sync scope.
MCExcluded == {<< <<"b">> >>}

O(parent, name) == [parent |-> parent, name |-> <<name>>, version |-> 0]

\* 1 and 4 are files, 2 and 3 folders.
Drive(o, out) == [object |-> o, trash |-> out]

MCDrives ==
  { \* two folders of one name, with a file of one name in each
    Drive(<<O(2, "a"), O(0, "a"), O(0, "a"), O(3, "a")>>, {}),
    \* a file and a folder of one name; a folder with a file outside the root
    Drive(<<O(0, "a"), O(0, "a"), O(9, "a"), O(3, "b")>>, {}),
    \* a folder in a folder, files at both levels
    Drive(<<O(3, "a"), O(0, "a"), O(2, "b"), O(2, "a")>>, {}),
    \* files of one name; what can be created has been taken out
    Drive(<<O(0, "b"), O(0, "a"), O(0, "b"), O(0, "b")>>, {2, 4}) }
=============================================================================
