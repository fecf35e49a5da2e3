--------------------------- MODULE MCFileRotation ---------------------------
(* Configurations of FileRotation for model checking. *)
EXTENDS FileRotation

Rotation(naming, keep, compress, async) ==
    [naming |-> naming, max_file_size_bytes |-> 2, max_rotated_files |-> keep,
     auto_delete_days |-> 0, compress |-> compress, compress_async |-> async]

\* By time with a limit, by number with synchronous compression, and with a
\* compressor racing retention.
AllConfigs ==
    {Rotation("Timestamp", 1, "NONE", FALSE),
     Rotation("Sequence", 0, "GZIP", FALSE),
     Rotation("Sequence", 1, "GZIP", TRUE)}

\* Nothing limits the number of rotated files.
CompressedUnlimited == {Rotation("Sequence", 0, "GZIP", TRUE)}
=============================================================================
