---------------------------------- MODULE MCAltFiles ----------------------------------
EXTENDS AltFiles

Uart == <<"dev", "jtag_uart">>
Lcd == <<"dev", "lcd">>
ZipFs == <<"mnt", "rozipfs">>
InZipFs == <<"mnt", "rozipfs", "index.html">>

DevicesC == {Uart, Lcd}
MountsC == {ZipFs}
FilesC == {Lcd, InZipFs}
\* One sets a bit that is not the application's.
FlagsC == {{"WRONLY"}, {"RDWR", "NONBLOCK", "EXCL"}}
CallbacksC == [n \in {Uart, Lcd, ZipFs, Null} |->
  CASE n = Uart -> {"read", "write", "close", "ioctl"}
    [] n = Lcd -> {"write", "open"}
    [] n = ZipFs -> {"open", "close", "read", "lseek", "fstat"}
    [] n = Null -> {"write"}]

\* Bound: what is registered before main() is so in one order.  The names differ, so
\* that a search finds the same one wherever in its list it is.
OneOrder == /\ alt_dev_list # <<Uart, Null>>
            /\ Len(alt_dev_list) > 1 => alt_fs_list # <<>>
=======================================================================================
